---- MODULE Spec2Model ----
(***************************************************************************)
(* Model of the sync / reconciliation, prefix generation and search core   *)
(* of better-productive (src/src/index.js).                                *)
(*                                                                         *)
(* Strings the code inspects character by character (project names,        *)
(* prefixes, ticket keys, statuses) are sequences of one-character         *)
(* strings; opaque strings (ids, timestamps, urls) are atomic values.      *)
(***************************************************************************)
EXTENDS Integers, Sequences, FiniteSets, TLC

(***************************************************************************)
(* Characters                                                              *)
(***************************************************************************)
LowerChars == <<"a","b","c","d","e","f","g","h","i","j","k","l","m",
                "n","o","p","q","r","s","t","u","v","w","x","y","z">>
UpperChars == <<"A","B","C","D","E","F","G","H","I","J","K","L","M",
                "N","O","P","Q","R","S","T","U","V","W","X","Y","Z">>
DigitChars == <<"0","1","2","3","4","5","6","7","8","9">>

\* a sequence given by a rule for its i-th element, as an array of values
ArrayOf(f) == SubSeq(f, 1, Len(f))

IndexIn(seq, c) == CHOOSE i \in 1..Len(seq) : seq[i] = c
Range(seq) == {seq[i] : i \in 1..Len(seq)}

LowerSet == Range(LowerChars)
UpperSet == Range(UpperChars)
DigitSet == Range(DigitChars)

IsLower(c) == c \in LowerSet
IsUpper(c) == c \in UpperSet
IsDigit(c) == c \in DigitSet
\* the character class [a-zA-Z] of the regular expressions
IsLetter(c) == IsLower(c) \/ IsUpper(c)

\* String.prototype.toUpperCase / toLowerCase, one character
UpperTable == [c \in LowerSet |-> UpperChars[IndexIn(LowerChars, c)]]
LowerTable == [c \in UpperSet |-> LowerChars[IndexIn(UpperChars, c)]]
UpperChar(c) == IF IsLower(c) THEN UpperTable[c] ELSE c
LowerChar(c) == IF IsUpper(c) THEN LowerTable[c] ELSE c
toUpperCase(s) == ArrayOf([i \in 1..Len(s) |-> UpperChar(s[i])])
toLowerCase(s) == ArrayOf([i \in 1..Len(s) |-> LowerChar(s[i])])

\* decimal rendering of a natural number, as template literals and toString do
RECURSIVE Digits(_)
Digits(n) == IF n < 10 THEN <<DigitChars[n + 1]>>
             ELSE Digits(n \div 10) \o <<DigitChars[(n % 10) + 1]>>

Min(a, b) == IF a <= b THEN a ELSE b

\* String.prototype.substring(0, len)
substring0(s, len) == SubSeq(s, 1, Min(len, Len(s)))

(***************************************************************************)
(* String.prototype.localeCompare in the default (root) collation, over    *)
(* the characters used here: white space sorts before punctuation, before  *)
(* digits, before letters; letters compare without regard to case first    *)
(* and, when everything else is equal, lower case sorts before upper case. *)
(***************************************************************************)
Punctuation == {" ", "_", "-"}
KnownChars == Punctuation \cup DigitSet \cup LowerSet \cup UpperSet

PrimaryTable ==
    [c \in KnownChars |->
        IF c = " " THEN 1
        ELSE IF c = "_" THEN 2
        ELSE IF c = "-" THEN 3
        ELSE IF IsDigit(c) THEN 10 + IndexIn(DigitChars, c)
        ELSE IF IsLower(c) THEN 30 + IndexIn(LowerChars, c)
        ELSE 30 + IndexIn(UpperChars, c)]

PrimaryWeight(c) == PrimaryTable[c]

TertiaryWeight(c) == IF IsUpper(c) THEN 2 ELSE 1

RECURSIVE ComparePrimary(_, _, _)
ComparePrimary(a, b, i) ==
    IF i > Len(a) /\ i > Len(b) THEN 0
    ELSE IF i > Len(a) THEN -1
    ELSE IF i > Len(b) THEN 1
    ELSE IF PrimaryWeight(a[i]) < PrimaryWeight(b[i]) THEN -1
    ELSE IF PrimaryWeight(a[i]) > PrimaryWeight(b[i]) THEN 1
    ELSE ComparePrimary(a, b, i + 1)

RECURSIVE CompareTertiary(_, _, _)
CompareTertiary(a, b, i) ==
    IF i > Len(a) /\ i > Len(b) THEN 0
    ELSE IF i > Len(a) THEN -1
    ELSE IF i > Len(b) THEN 1
    ELSE IF TertiaryWeight(a[i]) < TertiaryWeight(b[i]) THEN -1
    ELSE IF TertiaryWeight(a[i]) > TertiaryWeight(b[i]) THEN 1
    ELSE CompareTertiary(a, b, i + 1)

localeCompare(a, b) ==
    LET p == ComparePrimary(a, b, 1)
    IN  IF p # 0 THEN p ELSE CompareTertiary(a, b, 1)

(***************************************************************************)
(* Project prefix generation                                               *)
(***************************************************************************)
\* default value of generatePrefix's minLength parameter
DefaultMinLength == 4

\* projectName.replace(/[^a-zA-Z]/g, '').toUpperCase()
AlphaOf(projectName) == toUpperCase(SelectSeq(projectName, IsLetter))

\* the while loop of the numeric fallback: first i >= start not yet taken
RECURSIVE FirstFreeSuffix(_, _, _)
FirstFreeSuffix(basePrefix, existingPrefixes, i) ==
    IF (basePrefix \o Digits(i)) \in existingPrefixes
    THEN FirstFreeSuffix(basePrefix, existingPrefixes, i + 1)
    ELSE i

\* the generator with a numeric fallback that does not probe for a free suffix
generatePrefixNoProbe(projectName, existingPrefixes, minLength) ==
    LET alpha == AlphaOf(projectName)
        free  == {len \in minLength..Len(alpha) :
                     substring0(alpha, len) \notin existingPrefixes}
    IN  IF Len(alpha) = 0
        THEN <<"P","R","O","J">> \o Digits(Cardinality(existingPrefixes) + 1)
        ELSE IF free # {}
        THEN substring0(alpha, CHOOSE len \in free : \A m \in free : len <= m)
        ELSE substring0(alpha, minLength) \o Digits(2)

generatePrefix(projectName, existingPrefixes, minLength) ==
    LET alpha == AlphaOf(projectName)
        free  == {len \in minLength..Len(alpha) :
                     substring0(alpha, len) \notin existingPrefixes}
        basePrefix == substring0(alpha, minLength)
    IN  IF Len(alpha) = 0
        THEN <<"P","R","O","J">> \o Digits(Cardinality(existingPrefixes) + 1)
        ELSE IF free # {}
        THEN substring0(alpha, CHOOSE len \in free : \A m \in free : len <= m)
        ELSE basePrefix \o Digits(FirstFreeSuffix(basePrefix, existingPrefixes, 2))

\* obj[k] = v on a JavaScript object / Map.set on a keyed table
SetKey(f, k, v) == [x \in (DOMAIN f) \cup {k} |-> IF x = k THEN v ELSE f[x]]
EmptyMap == [x \in {} |-> x]

\* Array.prototype.sort with comparator a.name.localeCompare(b.name): stable
RECURSIVE InsertByName(_, _)
InsertByName(sorted, p) ==
    IF sorted = <<>> THEN <<p>>
    ELSE LET last == sorted[Len(sorted)]
         IN  IF localeCompare(last.name, p.name) <= 0
             THEN Append(sorted, p)
             ELSE Append(InsertByName(SubSeq(sorted, 1, Len(sorted) - 1), p), last)

RECURSIVE SortByName(_)
SortByName(projects) ==
    IF projects = <<>> THEN <<>>
    ELSE InsertByName(SortByName(SubSeq(projects, 1, Len(projects) - 1)),
                      projects[Len(projects)])

RECURSIVE AssignPrefixes(_, _, _)
AssignPrefixes(sortedProjects, i, acc) ==
    IF i > Len(sortedProjects) THEN acc
    ELSE LET project == sortedProjects[i]
             prefix  == generatePrefix(project.name, acc.existingPrefixes, DefaultMinLength)
         IN  AssignPrefixes(sortedProjects, i + 1,
                 [prefixMap        |-> SetKey(acc.prefixMap, project.id, prefix),
                  prefixIndex      |-> SetKey(acc.prefixIndex, prefix, project.id),
                  existingPrefixes |-> acc.existingPrefixes \cup {prefix}])

generateAllPrefixes(projects) ==
    LET r == AssignPrefixes(SortByName(projects), 1,
                 [prefixMap |-> EmptyMap, prefixIndex |-> EmptyMap,
                  existingPrefixes |-> {}])
    IN  [prefixMap |-> r.prefixMap, prefixIndex |-> r.prefixIndex]

(***************************************************************************)
(* The upstream API: the tasks, projects, people and workflow statuses the *)
(* model's responses are drawn from.                                       *)
(***************************************************************************)
\* task ids are 1..MaxId
MaxId == 3
\* a response advertises a next link only on pages below MaxPages
MaxPages == 1
\* at most MaxSyncs passes are started
MaxSyncs == 3
\* hard page cap of the fetch loop
PageCap == 25
\* at most MaxOverlapping passes are started where passes may overlap
MaxOverlapping == 2
\* at most MaxServedSyncs passes are started where requests are served
MaxServedSyncs == 2
\* session tokens are 1..MaxSessions
MaxSessions == 2
\* at most MaxAuthSyncs passes are started where the configuration varies
MaxAuthSyncs == 1

TaskIds == 1..MaxId
\* the versions a task goes through upstream: task 1 is edited, the others not
VersionsOf(id) == IF id = 1 THEN {1, 2} ELSE {1}

\* optional values: KV.get of a missing key gives null
None == <<>>
Some(v) == <<v>>

\* a missing relationship id (undefined in the response)
NoId == "none"
PersonId == "me"

\* tasks 1 and 2 are tickets 1 and 2 of project p1, the later ones of p2
ProjectOfTask(id) == IF id <= 2 THEN "p1" ELSE "p2"
NumberOfTask(id) == IF id <= 2 THEN id ELSE id - 2
AssigneeOfTask(id) == IF id % 2 = 1 THEN PersonId ELSE NoId
TitleOfTask(id) == <<"t">> \o Digits(id)

ProjectNames == [p1 |-> <<"P","r","i","m","e"," ","U","S">>,
                 p2 |-> <<"P","r","i","m","e">>]
StatusNames == [s1 |-> <<"O","p","e","n">>, s2 |-> <<"D","o","n","e">>]
PeopleNames == [me |-> <<"A","n","n">>]

\* one entry of a response's data array
RawTask(id, v) ==
    [id |-> id,
     number |-> NumberOfTask(id),
     number_is_string |-> FALSE,
     title |-> TitleOfTask(id),
     due_date |-> "none",
     created_at |-> "C",
     updated_at |-> IF v = 1 THEN "T1" ELSE "T2",
     assignee |-> AssigneeOfTask(id),
     project |-> ProjectOfTask(id),
     workflow_status |-> IF v = 1 THEN "s1" ELSE "s2",
     workflow_status_name |-> <<>>]

\* the data array for a choice f : TaskIds -> 0..2 (0: not on the page),
\* newest first (sort=-id)
RECURSIVE DataOf(_, _)
DataOf(f, id) ==
    IF id = 0 THEN <<>>
    ELSE (IF f[id] = 0 THEN <<>> ELSE <<RawTask(id, f[id])>>) \o DataOf(f, id - 1)

\* the resources one task is related to
RelatedOf(task) ==
    <<[type |-> "projects", id |-> task.project, name |-> ProjectNames[task.project]],
      [type |-> "workflow_statuses", id |-> task.workflow_status,
       name |-> StatusNames[task.workflow_status]]>>
    \o (IF task.assignee = NoId THEN <<>>
        ELSE <<[type |-> "people", id |-> task.assignee,
                name |-> PeopleNames[task.assignee]]>>)

RECURSIVE AppendNew(_, _)
AppendNew(list, items) ==
    IF items = <<>> THEN list
    ELSE AppendNew(IF \E i \in 1..Len(list) : list[i] = Head(items)
                   THEN list ELSE Append(list, Head(items)),
                   Tail(items))

\* the included array: the resources the page's tasks are related to, once each
RECURSIVE IncludedOf(_)
IncludedOf(data) ==
    IF data = <<>> THEN <<>>
    ELSE AppendNew(IncludedOf(SubSeq(data, 1, Len(data) - 1)),
                   RelatedOf(data[Len(data)]))

ErrorStatuses == {401, 500}

\* the responses the API may give to the request for page `page`
Responses(page) ==
    {[ok |-> TRUE, status |-> 200, body |-> "json",
      data |-> DataOf(f, MaxId), included |-> IncludedOf(DataOf(f, MaxId)),
      next |-> n] :
        f \in {g \in [TaskIds -> 0..2] : \A id \in TaskIds :
                                            g[id] \in {0} \cup VersionsOf(id)},
        n \in (IF page < MaxPages THEN BOOLEAN ELSE {FALSE})}
    \cup {[ok |-> FALSE, status |-> st, body |-> "upstream error",
           data |-> <<>>, included |-> <<>>, next |-> FALSE] : st \in ErrorStatuses}

\* the responses by page number, pages from MaxPages on alike
ResponsesAt == [page \in 1..MaxPages |-> Responses(page)]

\* the resource types of an included array
IncludedTypes == {"projects", "people", "workflow_statuses"}

\* the response with only the types in keep left in its included array and,
\* when named, with the status name as an attribute of every task
Sparse(response, keep, named) ==
    LET data == response.data
    IN  [response EXCEPT
            !.data = ArrayOf([i \in 1..Len(data) |->
                        [data[i] EXCEPT !.workflow_status_name =
                            IF named THEN StatusNames[data[i].workflow_status]
                            ELSE <<>>]]),
            !.included = SelectSeq(response.included, LAMBDA e : e.type \in keep)]

\* the responses of an API that may leave related resources out of a page
SparseResponsesAt ==
    [page \in 1..MaxPages |->
        {Sparse(r, keep, named) :
            r \in {x \in ResponsesAt[page] : x.ok},
            keep \in SUBSET IncludedTypes, named \in BOOLEAN}
        \cup {x \in ResponsesAt[page] : ~x.ok}]

\* the responses of an API with any number of pages, each page empty or
\* holding task 1: every page may advertise a next link
PagedResponses ==
    {[r EXCEPT !.next = n] :
        r \in {x \in ResponsesAt[1] :
                  x.ok /\ \A i \in 1..Len(x.data) : x.data[i].id = 1},
        n \in BOOLEAN}
    \cup {x \in ResponsesAt[1] : ~x.ok}

\* the responses of an API that answers every request with a page of exactly
\* one task, the oldest or the newest in its first version
SingleTaskResponses ==
    {x \in ResponsesAt[1] :
        x.ok /\ x.data \in {<<RawTask(1, 1)>>, <<RawTask(MaxId, 1)>>}}

(***************************************************************************)
(* State                                                                   *)
(***************************************************************************)
VARIABLES
    kv,           \* TASKS_KV: blob key -> None | Some(value)
    sync,         \* per trigger: the locals of its updateTaskDatabase call
    lastFetched,  \* history: the records fetched by the latest completed fetch
    passes,       \* number of passes started so far
    gen,          \* a call of generateAllPrefixes: its input and its result
    search,       \* a call of the search functions or of a handler: its
                  \* input and its result
    env,          \* the Worker's secrets: name -> None | Some(value)
    issued,       \* history: per session token "unissued", "valid" (issued
                  \* by a login and neither logged out nor expired),
                  \* "loggedOut" or "expired"
    setup         \* the call of handleSetupPost that is between its two
                  \* puts: None, or Some of its request and of the digest
                  \* it has yet to put

\* the two callers of updateTaskDatabase: handleManualUpdate and scheduled
Triggers == {"manual", "cron"}

BlobKeys == {"all_tasks", "prefix_map", "prefix_index", "last_updated",
             "task_count", "assigned_count", "changed_task_ids",
             "new_task_ids", "updated_task_ids", "filter_statuses",
             "filter_assignees", "filter_projects", "current_person_id"}

\* the blobs that make up the snapshot
SnapshotKeys == BlobKeys \ {"current_person_id"}

\* the credentials the setup wizard and the settings keep in the store
ConfigKeys == {"config_api_token", "config_app_pin"}

\* the values generateSessionToken may return, and a request's Cookie header:
\* None, or Some(token) for bp_session=token
Tokens == 1..MaxSessions
Cookies == {<<>>} \cup {<<t>> : t \in Tokens}

\* `session_${token}`
SessionKeyNames == <<"session_1", "session_2", "session_3", "session_4">>
SessionKey(token) == SessionKeyNames[token]
SessionKeys == {SessionKey(t) : t \in Tokens}

StoreKeys == BlobKeys \cup ConfigKeys \cup SessionKeys

Unknown == <<"U","n","k","n","o","w","n">>
NoProject == <<"N","o"," ","P","r","o","j","e","c","t">>
Unassigned == <<"U","n","a","s","s","i","g","n","e","d">>
UNKN == <<"U","N","K","N">>

(***************************************************************************)
(* fetchTasksWithFilter: one page                                          *)
(***************************************************************************)
\* the per-page lookup object for one included type: id -> name
RECURSIVE LookupOf(_, _)
LookupOf(included, type) ==
    IF included = <<>> THEN EmptyMap
    ELSE LET item == included[Len(included)]
             rest == LookupOf(SubSeq(included, 1, Len(included) - 1), type)
         IN  IF item.type = type THEN SetKey(rest, item.id, item.name) ELSE rest

\* map[id] || fallback
NameOr(map, id, fallback) == IF id \in DOMAIN map THEN map[id] ELSE fallback

\* the record built for a task of the page
MakeTask(task, included) ==
    [id |-> task.id,
     ticketNumber |-> task.number,
     numberIsString |-> task.number_is_string,
     title |-> task.title,
     projectId |-> task.project,
     project |-> NameOr(LookupOf(included, "projects"), task.project, NoProject),
     status |-> NameOr(LookupOf(included, "workflow_statuses"),
                       task.workflow_status,
                       IF task.workflow_status_name # <<>>
                       THEN task.workflow_status_name ELSE Unknown),
     assigneeId |-> task.assignee,
     assignee |-> NameOr(LookupOf(included, "people"), task.assignee, Unassigned),
     dueDate |-> task.due_date,
     createdAt |-> task.created_at,
     updatedAt |-> task.updated_at,
     url |-> <<"tasks/task", task.id>>,
     deleted |-> FALSE,
     projectPrefix |-> <<>>,
     ticketKey |-> <<>>]

\* the merge without the duplicate check: a later occurrence overwrites
RECURSIVE MergePageLastWins(_, _, _, _)
MergePageLastWins(taskMap, data, included, i) ==
    IF i > Len(data) THEN taskMap
    ELSE MergePageLastWins(SetKey(taskMap, data[i].id, MakeTask(data[i], included)),
                           data, included, i + 1)

\* for (const task of data.data): skip ids already in taskMap
RECURSIVE MergePage(_, _, _, _)
MergePage(taskMap, data, included, i) ==
    IF i > Len(data) THEN taskMap
    ELSE IF data[i].id \in DOMAIN taskMap
    THEN MergePage(taskMap, data, included, i + 1)
    ELSE MergePage(SetKey(taskMap, data[i].id, MakeTask(data[i], included)),
                   data, included, i + 1)

\* the statuses of every task of the page, skipped duplicates included
PageStatusesOfAll(taskMap, data, included) ==
    {MakeTask(data[i], included).status : i \in 1..Len(data)}
\* allStatuses.add(status) for every task of the page that was not skipped
PageStatuses(taskMap, data, included) ==
    {MakeTask(data[i], included).status :
        i \in {j \in 1..Len(data) : data[j].id \notin DOMAIN taskMap}}

\* Map.set(id, {id, name}) in iteration order: a known id keeps its position
RECURSIVE SetAll(_, _)
SetAll(entries, items) ==
    IF items = <<>> THEN entries
    ELSE LET e == Head(items)
             known == {i \in 1..Len(entries) : entries[i].id = e.id}
         IN  SetAll(IF known = {} THEN Append(entries, e)
                    ELSE [entries EXCEPT ![CHOOSE i \in known : TRUE] = e],
                    Tail(items))

\* the included items of one type, as {id, name} entries in array order
IncludedEntries(included, type) ==
    LET items == SelectSeq(included, LAMBDA e : e.type = type)
    IN  ArrayOf([i \in 1..Len(items) |-> [id |-> items[i].id, name |-> items[i].name]])

(***************************************************************************)
(* updateTaskDatabase: reconciliation after the two fetches                *)
(***************************************************************************)
\* a tombstone that keeps the last known status
TombstoneKeepingStatus(existingTask) == [existingTask EXCEPT !.deleted = TRUE]

\* the record carried forward for a task that is no longer in the API
Tombstone(existingTask) ==
    [existingTask EXCEPT
        !.status = IF existingTask.deleted THEN existingTask.status ELSE Unknown,
        !.deleted = TRUE]

\* a reconciliation that carries nothing forward
PreserveNone(taskMap, existingTasks, i) == taskMap

\* a reconciliation that carries a vanished record forward once and drops
\* the records that were tombstones already
RECURSIVE PreserveLive(_, _, _)
PreserveLive(taskMap, existingTasks, i) ==
    IF i > Len(existingTasks) THEN taskMap
    ELSE IF existingTasks[i].id \in DOMAIN taskMap \/ existingTasks[i].deleted
    THEN PreserveLive(taskMap, existingTasks, i + 1)
    ELSE PreserveLive(SetKey(taskMap, existingTasks[i].id,
                             Tombstone(existingTasks[i])),
                      existingTasks, i + 1)
\* for (const [taskId, existingTask] of existingTasksMap)
RECURSIVE PreserveDeleted(_, _, _)
PreserveDeleted(taskMap, existingTasks, i) ==
    IF i > Len(existingTasks) THEN taskMap
    ELSE IF existingTasks[i].id \in DOMAIN taskMap
    THEN PreserveDeleted(taskMap, existingTasks, i + 1)
    ELSE PreserveDeleted(SetKey(taskMap, existingTasks[i].id,
                                Tombstone(existingTasks[i])),
                         existingTasks, i + 1)

\* a comparator with its operands the other way round: (a, b) => a.id - b.id
RECURSIVE SortAsc(_)
SortAsc(taskMap) ==
    IF DOMAIN taskMap = {} THEN <<>>
    ELSE LET low == CHOOSE id \in DOMAIN taskMap : \A o \in DOMAIN taskMap : id <= o
         IN  <<taskMap[low]>> \o
             SortAsc([id \in (DOMAIN taskMap) \ {low} |-> taskMap[id]])

\* [...taskMap.values()].sort((a, b) => b.id - a.id)
RECURSIVE SortDesc(_)
SortDesc(taskMap) ==
    IF DOMAIN taskMap = {} THEN <<>>
    ELSE LET top == CHOOSE id \in DOMAIN taskMap : \A o \in DOMAIN taskMap : o <= id
         IN  <<taskMap[top]>> \o
             SortDesc([id \in (DOMAIN taskMap) \ {top} |-> taskMap[id]])

\* a stamp that prefers the prefix the record already carries
StampTaskKeepingPrefix(task, prefixMap) ==
    LET prefix == IF task.projectPrefix # <<>> THEN task.projectPrefix
                  ELSE IF task.projectId \in DOMAIN prefixMap
                  THEN prefixMap[task.projectId]
                  ELSE UNKN
    IN  [task EXCEPT !.projectPrefix = prefix,
                     !.ticketKey = prefix \o <<"-">> \o Digits(task.ticketNumber)]
\* task.projectPrefix / task.ticketKey assignment of one task
StampTask(task, prefixMap) ==
    LET prefix == IF task.projectId \in DOMAIN prefixMap
                  THEN prefixMap[task.projectId]
                  ELSE IF task.projectPrefix # <<>> THEN task.projectPrefix
                  ELSE UNKN
    IN  [task EXCEPT !.projectPrefix = prefix,
                     !.ticketKey = prefix \o <<"-">> \o Digits(task.ticketNumber)]

StampAll(allTasks, prefixMap) ==
    ArrayOf([i \in 1..Len(allTasks) |-> StampTask(allTasks[i], prefixMap)])

\* existingUpdatedAtMap.get(id): None for an unknown id
ExistingUpdatedAt(existingTasks, id) ==
    LET hits == {i \in 1..Len(existingTasks) : existingTasks[i].id = id}
    IN  IF hits = {} THEN None
        ELSE Some(existingTasks[CHOOSE i \in hits : \A j \in hits : j <= i].updatedAt)

\* a classification that never reports an update
ChangeOfNoUpdates(task, existingTasks) ==
    IF task.deleted THEN "same"
    ELSE IF ExistingUpdatedAt(existingTasks, task.id) = None THEN "new"
    ELSE "same"

\* a classification against the live records of the prior snapshot only
ChangeOfAgainstLive(task, existingTasks) ==
    LET existingUpdatedAt ==
            ExistingUpdatedAt(SelectSeq(existingTasks, LAMBDA t : ~t.deleted),
                              task.id)
    IN  IF task.deleted THEN "same"
        ELSE IF existingUpdatedAt = None THEN "new"
        ELSE IF existingUpdatedAt # Some(task.updatedAt) THEN "updated"
        ELSE "same"
\* the classification of one task: "new", "updated" or "same"
ChangeOf(task, existingTasks) ==
    LET existingUpdatedAt == ExistingUpdatedAt(existingTasks, task.id)
    IN  IF task.deleted THEN "same"
        ELSE IF existingUpdatedAt = None THEN "new"
        ELSE IF existingUpdatedAt # Some(task.updatedAt) THEN "updated"
        ELSE "same"

IdsOf(tasks) == ArrayOf([i \in 1..Len(tasks) |-> tasks[i].id])

\* a change set that lists every active task, whatever the prior snapshot
DetectChangesAllActive(allTasks, existingTasks) ==
    [changedTaskIds |-> IdsOf(SelectSeq(allTasks, LAMBDA t : ~t.deleted)),
     newTaskIds     |-> IdsOf(SelectSeq(allTasks,
                            LAMBDA t : ChangeOf(t, existingTasks) = "new")),
     updatedTaskIds |-> IdsOf(SelectSeq(allTasks,
                            LAMBDA t : ChangeOf(t, existingTasks) = "updated"))]

\* the three id lists, in task list order
DetectChanges(allTasks, existingTasks) ==
    [changedTaskIds |-> IdsOf(SelectSeq(allTasks,
                            LAMBDA t : ChangeOf(t, existingTasks) # "same")),
     newTaskIds     |-> IdsOf(SelectSeq(allTasks,
                            LAMBDA t : ChangeOf(t, existingTasks) = "new")),
     updatedTaskIds |-> IdsOf(SelectSeq(allTasks,
                            LAMBDA t : ChangeOf(t, existingTasks) = "updated"))]

\* UTF-16 code units, the order of Array.prototype.sort without comparator
CodeUnitTable ==
    [c \in KnownChars |->
        IF c = " " THEN 32
        ELSE IF c = "-" THEN 45
        ELSE IF IsDigit(c) THEN 47 + IndexIn(DigitChars, c)
        ELSE IF IsUpper(c) THEN 64 + IndexIn(UpperChars, c)
        ELSE IF c = "_" THEN 95
        ELSE 96 + IndexIn(LowerChars, c)]

CodeUnit(c) == CodeUnitTable[c]

RECURSIVE CompareCodeUnits(_, _, _)
CompareCodeUnits(a, b, i) ==
    IF i > Len(a) /\ i > Len(b) THEN 0
    ELSE IF i > Len(a) THEN -1
    ELSE IF i > Len(b) THEN 1
    ELSE IF CodeUnit(a[i]) < CodeUnit(b[i]) THEN -1
    ELSE IF CodeUnit(a[i]) > CodeUnit(b[i]) THEN 1
    ELSE CompareCodeUnits(a, b, i + 1)

\* [...set].sort()
RECURSIVE SortStrings(_)
SortStrings(S) ==
    IF S = {} THEN <<>>
    ELSE LET least == CHOOSE x \in S : \A y \in S : CompareCodeUnits(x, y, 1) <= 0
         IN  <<least>> \o SortStrings(S \ {least})

\* everything the pass computes between the last fetch and the first put
Reconciled(existingTasks, fetchedMap, allProjects, allStatuses, allAssignees) ==
    LET taskMap  == PreserveDeleted(fetchedMap, existingTasks, 1)
        statuses == IF DOMAIN taskMap = DOMAIN fetchedMap THEN allStatuses
                    ELSE allStatuses \cup {Unknown}
        prefixes == generateAllPrefixes(allProjects)
        allTasks == StampAll(SortDesc(taskMap), prefixes.prefixMap)
        changes  == DetectChanges(allTasks, existingTasks)
        assignedCount == Len(SelectSeq(allTasks,
                            LAMBDA t : t.assigneeId = PersonId /\ ~t.deleted))
        projectsWithNames ==
            SortByName(ArrayOf([i \in 1..Len(allProjects) |->
                [id |-> allProjects[i].id, name |-> allProjects[i].name,
                 prefix |-> NameOr(prefixes.prefixMap, allProjects[i].id, UNKN)]]))
    IN  [taskMap |-> taskMap,
         writes |->
            << <<"all_tasks", allTasks>>,
               <<"prefix_map", prefixes.prefixMap>>,
               <<"prefix_index", prefixes.prefixIndex>>,
               <<"last_updated", "now">>,
               <<"task_count", Digits(Len(allTasks))>>,
               <<"assigned_count", Digits(assignedCount)>>,
               <<"changed_task_ids", changes.changedTaskIds>>,
               <<"new_task_ids", changes.newTaskIds>>,
               <<"updated_task_ids", changes.updatedTaskIds>>,
               <<"filter_statuses", SortStrings(statuses)>>,
               <<"filter_assignees", SortByName(allAssignees)>>,
               <<"filter_projects", projectsWithNames>>,
               <<"current_person_id", PersonId>> >>,
         summary |->
            [taskCount |-> Len(allTasks),
             assignedCount |-> assignedCount,
             activeCount |-> Len(SelectSeq(allTasks, LAMBDA t : ~t.deleted)),
             deletedCount |-> Len(SelectSeq(allTasks, LAMBDA t : t.deleted)),
             projectCount |-> Len(allProjects),
             prefixes |-> prefixes.prefixMap,
             changedCount |-> Len(changes.changedTaskIds),
             newCount |-> Len(changes.newTaskIds),
             updatedCount |-> Len(changes.updatedTaskIds)]]

(***************************************************************************)
(* Configuration: the credentials and where they are read from             *)
(***************************************************************************)
\* the API tokens: of the secret, entered in the wizard, entered in Settings
SecretApiToken == <<"s","e","c","r","e","t">>
WizardApiToken == <<"w","i","z","a","r","d">>
SettingsApiToken == <<"s","e","t","t","i","n","g","s">>

\* PINs, and a value the PIN format rejects
Pin1234 == <<"1","2","3","4">>
Pin9999 == <<"9","9","9","9">>
PinShort == <<"1","2">>

\* the value of the SETUP_TOKEN secret
SetupSecret == "setup token"

\* an environment with no secret set
NoSecrets == [PRODUCTIVE_API_TOKEN |-> None, APP_PIN |-> None,
              SETUP_TOKEN |-> None]

\* the deployment the sync is studied in: the API token is a secret and the
\* dashboard has no PIN
SecretsSet == [NoSecrets EXCEPT !.PRODUCTIVE_API_TOKEN = Some(SecretApiToken)]

\* the message of the error thrown at line 695
NotConfigured == <<"PRODUCTIVE_API_TOKEN not configured">>

\* a configuration that reads the store first and the secrets second
getConfigStoreFirst(e, store) ==
    LET apiToken == IF store["config_api_token"] # None
                    THEN store["config_api_token"] ELSE e.PRODUCTIVE_API_TOKEN
        appPin == IF store["config_app_pin"] # None
                  THEN store["config_app_pin"] ELSE e.APP_PIN
    IN  [apiToken |-> apiToken, appPin |-> appPin,
         setupToken |-> e.SETUP_TOKEN,
         isConfigured |-> apiToken # None, isProtected |-> appPin # None]

\* lines 38-58: the secrets first, the store as the fallback
getConfig(e, store) ==
    LET apiToken == IF e.PRODUCTIVE_API_TOKEN # None
                    THEN e.PRODUCTIVE_API_TOKEN ELSE store["config_api_token"]
        appPin == IF e.APP_PIN # None
                  THEN e.APP_PIN ELSE store["config_app_pin"]
    IN  [apiToken |-> apiToken, appPin |-> appPin,
         setupToken |-> e.SETUP_TOKEN,
         isConfigured |-> apiToken # None, isProtected |-> appPin # None]

(***************************************************************************)
(* The passes of updateTaskDatabase                                        *)
(***************************************************************************)
vars == <<kv, sync, lastFetched, passes, gen, search, env, issued, setup>>

\* a trigger with no call in progress
IdleSync ==
    [pc |-> "idle",
     existingTasks |-> <<>>,
     taskMap |-> EmptyMap,
     allProjects |-> <<>>,
     allStatuses |-> {},
     allAssignees |-> <<>>,
     filter |-> "subscribed",
     page |-> 1,
     hasMore |-> TRUE,
     totalPagesFetched |-> 0,
     pending |-> <<>>,
     summary |-> None,
     error |-> None,
     \* the X-Auth-Token of the call's requests
     apiToken |-> None,
     \* the event stream of handleManualUpdate: whether the call was given
     \* onProgress, the events sent, whether the controller was closed
     onProgress |-> FALSE,
     events |-> <<>>,
     closed |-> FALSE,
     \* the client of the stream went away: None, or Some(requests made so far)
     disconnectedAt |-> None,
     \* history of the pass, read by the properties only
     sameAsLast |-> FALSE,
     requests |-> 0,
     firstSeen |-> EmptyMap,
     firstIncluded |-> EmptyMap,
     seenStatuses |-> EmptyMap,
     sawDuplicate |-> FALSE]

\* no call of generateAllPrefixes on its own
NoGen == [stage |-> "none", projects |-> <<>>, reordered |-> <<>>,
          prefixes |-> None, prefixesReordered |-> None]

\* no call of the search functions
NoSearch == [stage |-> "none"]

\* the store before the first sync
InitStore ==
    /\ kv = [k \in StoreKeys |-> None]
    /\ sync = [s \in Triggers |-> IdleSync]
    /\ lastFetched = EmptyMap
    /\ passes = 0
    /\ issued = [t \in Tokens |-> "unissued"]
    /\ setup = None

Init ==
    /\ InitStore
    /\ env = SecretsSet
    /\ gen = NoGen
    /\ search = NoSearch

\* a loop that lets one page too many through
LoopConditionOffByOne(hasMore, page) == hasMore /\ page <= PageCap + 1

\* while (hasMore && page <= 25)
LoopCondition(hasMore, page) == hasMore /\ page <= PageCap

\* where the pass continues after a page was merged
AfterPage(filter, page, hasMore) ==
    IF LoopCondition(hasMore, page)
    THEN [pc |-> "fetch", filter |-> filter, page |-> page, hasMore |-> hasMore]
    ELSE IF filter = "subscribed"
    THEN [pc |-> "fetch", filter |-> "assigned", page |-> 1, hasMore |-> TRUE]
    ELSE [pc |-> "reconcile", filter |-> filter, page |-> page, hasMore |-> hasMore]

\* lines 1193-1212: the event the stream ends with, and controller.close()
Closing(l, event) ==
    IF l.onProgress
    THEN [l EXCEPT !.events = Append(@, event), !.closed = TRUE]
    ELSE l

\* the 'complete' event of a pass that returned its summary
Complete(l) ==
    Closing(l, [type |-> "complete", success |-> TRUE,
                taskCount |-> l.summary[1].taskCount,
                assignedCount |-> l.summary[1].assignedCount,
                changedCount |-> l.summary[1].changedCount,
                newCount |-> l.summary[1].newCount,
                updatedCount |-> l.summary[1].updatedCount])

\* a pass whose summary counts every stored record as active
ReconciledPassCountingAllActive(l, last) ==
    LET r == Reconciled(l.existingTasks, l.taskMap, l.allProjects,
                        l.allStatuses, l.allAssignees)
    IN  [l EXCEPT !.pc = "put",
                  !.sameAsLast = (l.taskMap = last),
                  !.taskMap = r.taskMap,
                  !.pending = r.writes,
                  !.summary = Some([r.summary EXCEPT
                                       !.activeCount = r.summary.taskCount,
                                       !.deletedCount = 0])]

\* the local state once both fetches are over: everything up to the first put
ReconciledPass(l, last) ==
    LET r == Reconciled(l.existingTasks, l.taskMap, l.allProjects,
                        l.allStatuses, l.allAssignees)
    IN  [l EXCEPT !.pc = "put",
                  !.sameAsLast = (l.taskMap = last),
                  !.taskMap = r.taskMap,
                  !.pending = r.writes,
                  !.summary = Some(r.summary)]

\* an error response taken as the end of the data: the pass goes on to persist
FailedPassCommitting(l, response) ==
    [ReconciledPass(l, EmptyMap) EXCEPT
        !.error = Some(<<"API error", response.status, response.body>>),
        !.requests = @ + 1]

\* the call throws: the handler reports the message and closes the stream
Thrown(l, message) ==
    Closing([l EXCEPT !.pc = "failed", !.error = Some(message)],
            [type |-> "error", success |-> FALSE, error |-> message])

\* the local state after an error response: the call throws
FailedPass(l, response) ==
    Thrown([l EXCEPT !.requests = @ + 1],
           <<"API error", response.status, response.body>>)

\* a call that starts fetching whatever the configuration holds
StartedUnchecked(s, e, store) ==
    [IdleSync EXCEPT
        !.pc = "fetch",
        !.apiToken = getConfig(e, store).apiToken,
        !.existingTasks = IF store["all_tasks"] = None THEN <<>>
                          ELSE store["all_tasks"][1],
        !.onProgress = (s = "manual"),
        !.events = IF s = "manual"
                   THEN <<[type |-> "connecting"]>> ELSE <<>>,
        !.sameAsLast = FALSE]

\* lines 690-722: the call reads the configuration, throws when it holds no
\* API token, and otherwise reads the stored task list
Started(s, e, store) ==
    IF getConfig(e, store).apiToken = None
    THEN Thrown([IdleSync EXCEPT
                    !.onProgress = (s = "manual"),
                    !.events = IF s = "manual"
                               THEN <<[type |-> "connecting"]>> ELSE <<>>],
                NotConfigured)
    ELSE [IdleSync EXCEPT
            !.pc = "fetch",
            !.apiToken = getConfig(e, store).apiToken,
            !.existingTasks = IF store["all_tasks"] = None THEN <<>>
                              ELSE store["all_tasks"][1],
            !.onProgress = (s = "manual"),
            !.events = IF s = "manual"
                       THEN <<[type |-> "connecting"]>> ELSE <<>>,
            !.sameAsLast = FALSE]

\* scheduled and handleManualUpdate call updateTaskDatabase
StartSync(s) ==
    /\ sync[s].pc = "idle"
    /\ passes < MaxSyncs
    /\ passes' = passes + 1
    /\ sync' = [sync EXCEPT ![s] = Started(s, env, kv)]
    /\ UNCHANGED <<kv, lastFetched, gen, search, env, issued, setup>>

\* the entries of a page's included array that a task of the page refers to
RelatedIn(included, task) ==
    SelectSeq(included,
              LAMBDA e : \/ e.type = "projects" /\ e.id = task.project
                         \/ e.type = "people" /\ e.id = task.assignee
                         \/ e.type = "workflow_statuses"
                            /\ e.id = task.workflow_status)

\* the local state after a page was received and merged, its tasks' names
\* looked up in lookup
MergedWith(l, response, lookup) ==
    LET next == AfterPage(l.filter, l.page + 1, response.next)
        fresh == {i \in 1..Len(response.data) :
                     response.data[i].id \notin DOMAIN l.firstSeen}
        again == {i \in 1..Len(response.data) :
                     /\ response.data[i].id \in DOMAIN l.firstSeen
                     /\ l.firstSeen[response.data[i].id] # response.data[i]}
    IN  [l EXCEPT
            !.pc = next.pc,
            !.filter = next.filter,
            !.page = next.page,
            !.hasMore = next.hasMore,
            !.totalPagesFetched = @ + 1,
            !.taskMap = MergePage(l.taskMap, response.data, lookup, 1),
            !.allStatuses = @ \cup PageStatuses(l.taskMap, response.data, lookup),
            !.allProjects = SetAll(@, IncludedEntries(response.included, "projects")),
            !.allAssignees = SetAll(@, IncludedEntries(response.included, "people")),
            !.requests = @ + 1,
            !.firstSeen = [id \in (DOMAIN l.firstSeen)
                                  \cup {response.data[i].id : i \in fresh} |->
                              IF id \in DOMAIN l.firstSeen THEN l.firstSeen[id]
                              ELSE response.data[CHOOSE i \in fresh :
                                                   response.data[i].id = id]],
            !.firstIncluded =
                [id \in (DOMAIN l.firstSeen)
                        \cup {response.data[i].id : i \in fresh} |->
                    IF id \in DOMAIN l.firstSeen THEN l.firstIncluded[id]
                    ELSE RelatedIn(response.included,
                                   response.data[CHOOSE i \in fresh :
                                                   response.data[i].id = id])],
            !.seenStatuses =
                LET page == LookupOf(response.included, "workflow_statuses")
                IN  [id \in (DOMAIN @) \cup DOMAIN page |->
                        IF id \in DOMAIN page THEN page[id] ELSE @[id]],
            !.sawDuplicate = @ \/ again # {}]

\* lines 793-805: the progress report of the page just merged
WithProgress(l, response, merged, tasksFound) ==
    IF l.onProgress
    THEN [merged EXCEPT !.events =
             Append(@, [type |-> "progress", phase |-> l.filter, page |-> l.page,
                        hasMore |-> response.next, tasksFound |-> tasksFound,
                        totalPages |-> merged.totalPagesFetched])]
    ELSE merged

\* a merge that resolves names from the tables accumulated over all pages
MergedPassSharedLookup(l, response) ==
    LET typed(entries, type) ==
            ArrayOf([i \in 1..Len(entries) |->
                [type |-> type, id |-> entries[i].id, name |-> entries[i].name]])
        merged == MergedWith(l, response,
                             typed(l.allProjects, "projects")
                             \o typed(l.allAssignees, "people")
                             \o response.included)
    IN  WithProgress(l, response, merged, Cardinality(DOMAIN merged.taskMap))

\* a pass that reports the page before it merges it
MergedPassReportingFirst(l, response) ==
    WithProgress(l, response, MergedWith(l, response, response.included),
                 Cardinality(DOMAIN l.taskMap))

\* the lookup objects are built from the included array of the page itself
MergedPass(l, response) ==
    LET merged == MergedWith(l, response, response.included)
    IN  WithProgress(l, response, merged, Cardinality(DOMAIN merged.taskMap))

\* lines 729-840: one iteration of the fetch loop and, after the last one,
\* the reconciliation that runs before the pass next awaits
Receive(s, response) ==
    LET merged == MergedPass(sync[s], response)
    IN  IF ~response.ok
        THEN /\ sync' = [sync EXCEPT ![s] = FailedPass(sync[s], response)]
             /\ UNCHANGED lastFetched
        ELSE IF merged.pc = "reconcile"
        THEN /\ sync' = [sync EXCEPT ![s] = ReconciledPass(merged, lastFetched)]
             /\ lastFetched' = merged.taskMap
        ELSE /\ sync' = [sync EXCEPT ![s] = merged]
             /\ UNCHANGED lastFetched

\* the pass is inside the fetch loop
Fetching(s) ==
    /\ sync[s].pc = "fetch"
    /\ LoopCondition(sync[s].hasMore, sync[s].page)

\* an iteration against an API that includes every related resource
FetchPage(s) ==
    /\ Fetching(s)
    /\ \E response \in ResponsesAt[Min(sync[s].page, MaxPages)] :
          Receive(s, response)
    /\ UNCHANGED <<kv, passes, gen, search, env, issued, setup>>

\* a run of env.TASKS_KV.put calls, in program order
RECURSIVE ApplyWrites(_, _)
ApplyWrites(store, writes) ==
    IF writes = <<>> THEN store
    ELSE ApplyWrites([store EXCEPT ![Head(writes)[1]] = Some(Head(writes)[2])],
                     Tail(writes))

\* lines 843-894: the puts of a pass that no other pass interleaves with
Persist(s) ==
    /\ sync[s].pc = "put"
    /\ kv' = ApplyWrites(kv, sync[s].pending)
    /\ sync' = [sync EXCEPT ![s] =
                  Complete([sync[s] EXCEPT !.pending = <<>>, !.pc = "done"])]
    /\ UNCHANGED <<lastFetched, passes, gen, search, env, issued, setup>>

\* the call returns or throws to its caller and its locals are gone
Return(s) ==
    /\ sync[s].pc \in {"done", "failed"}
    /\ sync' = [sync EXCEPT ![s] = IdleSync]
    /\ UNCHANGED <<kv, lastFetched, passes, gen, search, env, issued, setup>>

\* a pass that starts while no other pass is in progress
StartAlone(s) ==
    /\ \A t \in Triggers : sync[t].pc = "idle"
    /\ StartSync(s)

Next ==
    \E s \in Triggers :
        \/ StartAlone(s)
        \/ FetchPage(s)
        \/ Persist(s)
        \/ Return(s)

\* syncs that do not overlap in time
Spec == Init /\ [][Next]_vars

\* an iteration against an API that may leave related resources out
FetchSparsePage(s) ==
    /\ Fetching(s)
    /\ \E response \in SparseResponsesAt[Min(sync[s].page, MaxPages)] :
          Receive(s, response)
    /\ UNCHANGED <<kv, passes, gen, search, env, issued, setup>>

\* the first pass
StartFirst(s) ==
    /\ passes = 0
    /\ StartAlone(s)

NextSparse ==
    \E s \in Triggers :
        \/ StartFirst(s)
        \/ FetchSparsePage(s)
        \/ Persist(s)
        \/ Return(s)

\* the first sync against an API whose included arrays may be incomplete
SpecSparse == Init /\ [][NextSparse]_vars

\* an iteration against an API with any number of pages
FetchPagedPage(s) ==
    /\ Fetching(s)
    /\ \E response \in PagedResponses : Receive(s, response)
    /\ UNCHANGED <<kv, passes, gen, search, env, issued, setup>>

\* the first pass, started by the scheduled trigger
StartScheduled == StartFirst("cron")

NextPaging ==
    \/ StartScheduled
    \/ \E s \in Triggers :
          \/ FetchPagedPage(s)
          \/ Persist(s)
          \/ Return(s)

\* the first pass, started by the /update route
StartManual == StartFirst("manual")

NextStream ==
    \/ StartManual
    \/ \E s \in Triggers :
          \/ FetchPagedPage(s)
          \/ Persist(s)
          \/ Return(s)

\* the first sync, streamed to the client of /update, against an API with
\* any number of pages
SpecStream == Init /\ [][NextStream]_vars

\* the client of /update aborts its request while the call is fetching or
\* writing: handleManualUpdate gives its stream no cancel() and hands no
\* signal to updateTaskDatabase
Disconnect(s) ==
    /\ sync[s].onProgress
    /\ sync[s].pc \in {"fetch", "put"}
    /\ sync[s].disconnectedAt = None
    /\ sync' = [sync EXCEPT ![s].disconnectedAt = Some(sync[s].requests)]
    /\ UNCHANGED <<kv, lastFetched, passes, gen, search, env, issued, setup>>

\* an iteration whose progress report fails: controller.enqueue throws on a
\* stream its consumer has cancelled, inside onProgress, and the call throws
\* with the page merged and nothing written. Whether the stream is cancelled
\* when the client goes away is not decided by this code, so a disconnected
\* pass may take this step or FetchPage
ReportToClosedStream(s) ==
    /\ Fetching(s)
    /\ sync[s].disconnectedAt # None
    /\ \E response \in {r \in ResponsesAt[Min(sync[s].page, MaxPages)] : r.ok} :
          sync' = [sync EXCEPT ![s] =
                      [MergedWith(sync[s], response, response.included) EXCEPT
                          !.pc = "failed",
                          !.error = Some("enqueue on a closed stream"),
                          !.closed = TRUE]]
    /\ UNCHANGED <<kv, lastFetched, passes, gen, search, env, issued, setup>>

NextCancel ==
    \/ StartManual
    \/ \E s \in Triggers :
          \/ Disconnect(s)
          \/ FetchPage(s)
          \/ ReportToClosedStream(s)
          \/ Persist(s)
          \/ Return(s)

\* the first sync, streamed to a client that may go away
SpecCancel == Init /\ [][NextCancel]_vars

\* an iteration against an API that returns one task per page
FetchSingleTaskPage(s) ==
    /\ Fetching(s)
    /\ \E response \in SingleTaskResponses : Receive(s, response)
    /\ UNCHANGED <<kv, passes, gen, search, env, issued, setup>>

\* a pass that starts whether or not another pass is in progress: nothing
\* in scheduled or handleManualUpdate looks for a running pass
StartOverlapping(s) ==
    /\ passes < MaxOverlapping
    /\ StartSync(s)

\* all the puts of a pass in one step
PutBlobsAtOnce(s) ==
    /\ sync[s].pc = "put"
    /\ kv' = ApplyWrites(kv, sync[s].pending)
    /\ sync' = [sync EXCEPT ![s] =
                  Complete([sync[s] EXCEPT !.pending = <<>>, !.pc = "done"])]
    /\ UNCHANGED <<lastFetched, passes, gen, search, env, issued, setup>>

\* lines 843-894: one await env.TASKS_KV.put(key, value)
PutBlob(s) ==
    /\ sync[s].pc = "put"
    /\ kv' = ApplyWrites(kv, <<Head(sync[s].pending)>>)
    /\ sync' = [sync EXCEPT ![s] =
                  IF Tail(sync[s].pending) = <<>>
                  THEN Complete([sync[s] EXCEPT !.pending = <<>>, !.pc = "done"])
                  ELSE [sync[s] EXCEPT !.pending = Tail(@)]]
    /\ UNCHANGED <<lastFetched, passes, gen, search, env, issued, setup>>

NextOverlap ==
    \E s \in Triggers :
        \/ StartOverlapping(s)
        \/ FetchSingleTaskPage(s)
        \/ PutBlob(s)
        \/ Return(s)

\* syncs that may overlap in time, each put a step of its own
SpecOverlap == Init /\ [][NextOverlap]_vars

\* the scheduled trigger's first sync against an API with any number of
\* pages; every request the pass awaits is answered
SpecPaging ==
    /\ Init
    /\ [][NextPaging]_vars
    /\ \A s \in Triggers :
          WF_vars(FetchPagedPage(s)) /\ WF_vars(Persist(s)) /\ WF_vars(Return(s))

(***************************************************************************)
(* generateAllPrefixes on its own, over project lists of every shape       *)
(***************************************************************************)
\* project lists of up to MaxProjects projects
MaxProjects == 3

Prime100Support ==
    <<"P","r","i","m","e","1","0","0"," ","S","u","p","p","o","r","t">>
Prime100USSupport ==
    <<"P","r","i","m","e","1","0","0"," ","U","S"," ","S","u","p","p","o","r","t">>

\* names with a shared beginning, a name of exactly the minimum length, a name
\* shorter than it, and names without letters
SampleNames ==
    {Prime100Support, Prime100USSupport,
     <<"P","r","o","j">>, <<"A","b">>, <<"1","0","0">>, <<"7">>}

\* lists of projects with the distinct ids 1..n and any names
ProjectLists ==
    UNION {{ArrayOf([i \in 1..n |-> [id |-> i, name |-> names[i]]]) :
               names \in [1..n -> SampleNames]} : n \in 0..MaxProjects}

Orders(n) == {p \in [1..n -> 1..n] : \A i, j \in 1..n : p[i] = p[j] => i = j}

InitPrefix ==
    /\ InitStore
    /\ env = SecretsSet
    /\ \E projects \in ProjectLists :
          gen = [NoGen EXCEPT !.stage = "input", !.projects = projects]
    /\ search = NoSearch

\* generateAllPrefixes(projects)
Generate ==
    /\ gen.stage = "input"
    /\ gen' = [gen EXCEPT !.stage = "generated",
                          !.prefixes = Some(generateAllPrefixes(gen.projects))]
    /\ UNCHANGED <<kv, sync, lastFetched, passes, search, env, issued, setup>>

\* generateAllPrefixes on the same projects, discovered in another order
GenerateReordered ==
    /\ gen.stage = "generated"
    /\ \E p \in Orders(Len(gen.projects)) :
          LET reordered == ArrayOf([i \in 1..Len(gen.projects) |-> gen.projects[p[i]]])
          IN  gen' = [gen EXCEPT !.stage = "reordered",
                                 !.reordered = reordered,
                                 !.prefixesReordered =
                                     Some(generateAllPrefixes(reordered))]
    /\ UNCHANGED <<kv, sync, lastFetched, passes, search, env, issued, setup>>

NextPrefix == Generate \/ GenerateReordered

SpecPrefix == InitPrefix /\ [][NextPrefix]_vars

(***************************************************************************)
(* Search functions                                                        *)
(***************************************************************************)
\* String.prototype.trim, the space being the only white space used here
RECURSIVE trim(_)
trim(str) ==
    IF str = <<>> THEN str
    ELSE IF Head(str) = " " THEN trim(Tail(str))
    ELSE IF str[Len(str)] = " " THEN trim(SubSeq(str, 1, Len(str) - 1))
    ELSE str

\* a replace that leaves underscores alone
ReplaceDashesOnly(str) ==
    ArrayOf([i \in 1..Len(str) |-> IF str[i] = "-" THEN " " ELSE str[i]])

\* replace(/[-_]/g, ' ')
ReplaceDashes(str) ==
    ArrayOf([i \in 1..Len(str) |-> IF str[i] \in {"-", "_"} THEN " " ELSE str[i]])

\* replace(/\s+/g, ' ')
CollapseSpaces(str) ==
    SelectSeq(ArrayOf([i \in 1..Len(str) |->
                  IF str[i] = " " /\ i > 1 /\ str[i - 1] = " " THEN "" ELSE str[i]]),
              LAMBDA c : c # "")

\* the length of the longest run of [a-z] / of white space str begins with
LeadingLetters(str) ==
    Cardinality({k \in 1..Len(str) : \A i \in 1..k : IsLower(str[i])})
LeadingSpaces(str) ==
    Cardinality({k \in 1..Len(str) : \A i \in 1..k : str[i] = " "})

\* /^\d+$/.test(str)
AllDigits(str) == str # <<>> /\ \A i \in 1..Len(str) : IsDigit(str[i])

\* parseInt of a string of digits
RECURSIVE parseInt(_)
parseInt(str) ==
    IF str = <<>> THEN 0
    ELSE 10 * parseInt(SubSeq(str, 1, Len(str) - 1))
         + (IndexIn(DigitChars, str[Len(str)]) - 1)

\* the object parseSearchQuery returns: an absent property is None
Parsed(prefix, number, text) == [prefix |-> prefix, number |-> number, text |-> text]

parseSearchQuery(query) ==
    IF query = <<>> THEN Parsed(None, None, Some(<<>>))
    ELSE LET normalized == CollapseSpaces(ReplaceDashes(toLowerCase(trim(query))))
             letters == LeadingLetters(normalized)
             rest == SubSeq(normalized, letters + 1, Len(normalized))
             digits == SubSeq(rest, LeadingSpaces(rest) + 1, Len(rest))
         IN  \* normalized.match(/^([a-z]+)\s*(\d+)$/)
             IF letters >= 1 /\ AllDigits(digits)
             THEN Parsed(Some(toUpperCase(SubSeq(normalized, 1, letters))),
                         Some(parseInt(digits)), None)
             ELSE IF AllDigits(normalized)
             THEN Parsed(None, Some(parseInt(normalized)), None)
             ELSE Parsed(None, None, Some(normalized))

\* String.prototype.includes
Includes(str, q) ==
    \E i \in 0..(Len(str) - Len(q)) : SubSeq(str, i + 1, i + Len(q)) = q

\* t.ticketNumber === number: a ticket number stored as a string of digits
\* is not strictly equal to any number
SameNumber(task, number) == ~task.numberIsString /\ task.ticketNumber = number

\* sort((a, b) => b.id - a.id), stable
RECURSIVE InsertById(_, _)
InsertById(sorted, task) ==
    IF sorted = <<>> THEN <<task>>
    ELSE IF Head(sorted).id < task.id THEN <<task>> \o sorted
    ELSE <<Head(sorted)>> \o InsertById(Tail(sorted), task)

RECURSIVE SortById(_)
SortById(tasks) ==
    IF tasks = <<>> THEN <<>>
    ELSE InsertById(SortById(SubSeq(tasks, 1, Len(tasks) - 1)), tasks[Len(tasks)])

\* the predicate of the fuzzy text search
FuzzyMatch(task, q) ==
    \/ Includes(Digits(task.ticketNumber), q)
    \/ Includes(toLowerCase(task.ticketKey), q)
    \/ Includes(toLowerCase(task.title), q)
    \/ Includes(toLowerCase(task.status), q)
    \/ Includes(toLowerCase(task.assignee), q)
    \/ Includes(toLowerCase(task.project), q)

\* lines 945-955: the tasks the search by prefix and number finds
ExactMatch(tasks, prefixIndex, parsed) ==
    IF /\ parsed.prefix # None /\ parsed.number # None
       /\ parsed.prefix[1] \in DOMAIN prefixIndex
    THEN SelectSeq(tasks, LAMBDA t :
            /\ t.projectId = prefixIndex[parsed.prefix[1]]
            /\ SameNumber(t, parsed.number[1]))
    ELSE <<>>

\* a search that gives up when the exact match finds nothing
searchTasksNoFallback(tasks, prefixIndex, query) ==
    IF query = <<>> \/ trim(query) = <<>> THEN SortById(tasks)
    ELSE LET parsed == parseSearchQuery(query)
             q == IF parsed.text # None /\ parsed.text # Some(<<>>)
                  THEN parsed.text[1] ELSE toLowerCase(query)
         IN  IF parsed.text = None
             THEN SelectSeq(tasks, LAMBDA t :
                     /\ SameNumber(t, parsed.number[1])
                     /\ parsed.prefix # None =>
                           /\ parsed.prefix[1] \in DOMAIN prefixIndex
                           /\ t.projectId = prefixIndex[parsed.prefix[1]])
             ELSE SortById(SelectSeq(tasks, LAMBDA t : FuzzyMatch(t, q)))

searchTasks(tasks, prefixIndex, query) ==
    IF query = <<>> \/ trim(query) = <<>> THEN SortById(tasks)
    ELSE LET parsed == parseSearchQuery(query)
             byKey ==
                 IF /\ parsed.prefix # None /\ parsed.number # None
                    /\ parsed.prefix[1] \in DOMAIN prefixIndex
                 THEN SelectSeq(tasks, LAMBDA t :
                         /\ t.projectId = prefixIndex[parsed.prefix[1]]
                         /\ SameNumber(t, parsed.number[1]))
                 ELSE <<>>
             byNumber ==
                 IF parsed.number # None /\ parsed.prefix = None
                 THEN SelectSeq(tasks, LAMBDA t : SameNumber(t, parsed.number[1]))
                 ELSE <<>>
             q == IF parsed.text # None /\ parsed.text # Some(<<>>)
                  THEN parsed.text[1] ELSE toLowerCase(query)
         IN  IF byKey # <<>> THEN byKey
             ELSE IF byNumber # <<>> THEN byNumber
             ELSE SortById(SelectSeq(tasks, LAMBDA t : FuzzyMatch(t, q)))

(***************************************************************************)
(* The search functions on their own, over task lists, prefix indexes and  *)
(* queries of every shape                                                  *)
(***************************************************************************)
PRIM == <<"P","R","I","M">>
PRIM2 == <<"P","R","I","M","2">>

\* a stored task as the search functions read it
SearchTask(id, projectId, prefix, number, isString, title) ==
    [id |-> id,
     ticketNumber |-> number,
     numberIsString |-> isString,
     title |-> title,
     projectId |-> projectId,
     project |-> ProjectNames[projectId],
     status |-> StatusNames["s1"],
     assignee |-> PeopleNames[PersonId],
     projectPrefix |-> prefix,
     ticketKey |-> prefix \o <<"-">> \o Digits(number),
     url |-> <<"tasks/task", id>>,
     deleted |-> FALSE]

\* two tickets of one project, one number contained in the other and one
\* title that reads like a ticket key; the same number in a project whose
\* prefix has a numeric suffix; a ticket whose number is stored as a string
SampleTasks ==
    <<SearchTask(4, "p1", PRIM, 7, TRUE, <<"F","i","x">>),
      SearchTask(3, "p2", PRIM2, 242, FALSE, <<"F","i","x">>),
      SearchTask(2, "p1", PRIM, 24, FALSE, <<"p","r","i","m"," ","2","4","2">>),
      SearchTask(1, "p1", PRIM, 242, FALSE, <<"F","i","x">>)>>

\* the stored lists: any of the sample tasks, by descending id
TaskLists ==
    {SelectSeq(SampleTasks, LAMBDA t : t.id \in ids) : ids \in SUBSET (1..4)}

\* the stored prefix indexes: empty, one project, both projects, and the
\* first prefix given to the other project
PrefixIndexes ==
    {EmptyMap,
     SetKey(EmptyMap, PRIM, "p1"),
     SetKey(SetKey(EmptyMap, PRIM, "p1"), PRIM2, "p2"),
     SetKey(EmptyMap, PRIM, "p2")}

\* what a query begins with: nothing, a prefix in either case, a prefix with
\* a numeric suffix, a word of a title
QueryWords ==
    {<<>>, PRIM, <<"p","r","i","m">>, <<"P","r","i","m">>, PRIM2, <<"f","i","x">>}

\* what a query ends with: nothing, or digits with the number they denote
QueryNumbers ==
    {[text |-> <<>>, value |-> 0],
     [text |-> <<"2","4","2">>, value |-> 242],
     [text |-> <<"2","4">>, value |-> 24],
     [text |-> <<"7">>, value |-> 7],
     [text |-> <<"0","0","7">>, value |-> 7]}

Separators == {<<>>, <<" ">>, <<"-">>, <<"_">>}

\* the query string: word, separator and digits, with white space around it
\* when padded
QueryOf(word, sep, digits, padded) ==
    (IF padded THEN <<" ">> ELSE <<>>) \o word \o sep \o digits
    \o (IF padded THEN <<" ">> ELSE <<>>)

AskedQuery == QueryOf(search.word, search.sep, search.number.text, search.padded)

InitSearch ==
    /\ InitStore
    /\ env = SecretsSet
    /\ gen = NoGen
    /\ \E tasks \in TaskLists, prefixIndex \in PrefixIndexes, word \in QueryWords,
          number \in QueryNumbers, sep \in Separators, padded \in BOOLEAN :
          search = [stage |-> "asked", tasks |-> tasks, prefixIndex |-> prefixIndex,
                    word |-> word, number |-> number, sep |-> sep,
                    padded |-> padded, parsed |-> None, results |-> None,
                    spaced |-> None, dashed |-> None, joined |-> None,
                    browsed |-> None, exact |-> None]

\* parseSearchQuery(query)
Parse ==
    /\ search.stage = "asked"
    /\ search' = [search EXCEPT !.stage = "parsed",
                                !.parsed = Some(parseSearchQuery(AskedQuery))]
    /\ UNCHANGED <<kv, sync, lastFetched, passes, gen, env, issued, setup>>

\* searchTasks(tasks, prefixIndex, query)
Search ==
    /\ search.stage = "asked"
    /\ search' = [search EXCEPT
                    !.stage = "searched",
                    !.results = Some(searchTasks(search.tasks, search.prefixIndex,
                                                 AskedQuery))]
    /\ UNCHANGED <<kv, sync, lastFetched, passes, gen, env, issued, setup>>

\* searchTasks for the word and the digits typed with a space, with a dash
\* and with nothing between them
SearchEachWay ==
    /\ search.stage = "asked"
    /\ search.sep = <<>> /\ ~search.padded
    /\ LET ask(sep) == searchTasks(search.tasks, search.prefixIndex,
                                   QueryOf(search.word, sep, search.number.text, FALSE))
       IN  search' = [search EXCEPT !.stage = "compared",
                                    !.spaced = Some(ask(<<" ">>)),
                                    !.dashed = Some(ask(<<"-">>)),
                                    !.joined = Some(ask(<<>>))]
    /\ UNCHANGED <<kv, sync, lastFetched, passes, gen, env, issued, setup>>

NextSearch == Parse \/ Search \/ SearchEachWay

SpecSearch == InitSearch /\ [][NextSearch]_vars

(***************************************************************************)
(* Route handlers that read the store                                      *)
(***************************************************************************)
\* url.pathname.match(/^\/browse\/([A-Z]+)-(\d+)$/i) for the path
\* /browse/<prefix>-<number>
BrowseMatches(prefix, number) ==
    /\ prefix # <<>> /\ \A i \in 1..Len(prefix) : IsLetter(prefix[i])
    /\ AllDigits(number)

\* a handler that takes a missing task list for an empty one
handleBrowseUnchecked(store, prefix, number) ==
    IF ~BrowseMatches(prefix, number)
    THEN [status |-> 400, body |-> "Invalid ticket format. Use: /browse/PRIM-242"]
    ELSE [status |-> 404,
          body |-> [error |-> "Unknown project prefix",
                    prefix |-> toUpperCase(prefix), available |-> {}]]

\* the answer to /browse/<prefix>-<number> once the task list was read
Resolve(tasks, prefixIndex, key, prefix, number) ==
    LET found == SelectSeq(tasks, LAMBDA t :
                    /\ t.projectId = prefixIndex[key]
                    /\ Digits(t.ticketNumber) = number)
    IN  IF key \notin DOMAIN prefixIndex
        THEN [status |-> 404,
              body |-> [error |-> "Unknown project prefix", prefix |-> key,
                        available |-> DOMAIN prefixIndex]]
        ELSE IF found = <<>>
        THEN [status |-> 404,
              body |-> [error |-> "Ticket not found in project.",
                        prefix |-> key, number |-> number]]
        ELSE [status |-> 302, body |-> found[1].url]

\* a handler that looks the prefix up as it was typed
handleBrowseCaseSensitive(store, prefix, number) ==
    IF ~BrowseMatches(prefix, number)
    THEN [status |-> 400, body |-> "Invalid ticket format. Use: /browse/PRIM-242"]
    ELSE IF store["all_tasks"] = None
    THEN [status |-> 503,
          body |-> "Database not initialized. Please trigger /update first."]
    ELSE Resolve(store["all_tasks"][1],
                 IF store["prefix_index"] = None THEN EmptyMap
                 ELSE store["prefix_index"][1],
                 prefix, prefix, number)

handleBrowse(store, prefix, number) ==
    IF ~BrowseMatches(prefix, number)
    THEN [status |-> 400, body |-> "Invalid ticket format. Use: /browse/PRIM-242"]
    ELSE IF store["all_tasks"] = None
    THEN [status |-> 503,
          body |-> "Database not initialized. Please trigger /update first."]
    ELSE Resolve(store["all_tasks"][1],
                 IF store["prefix_index"] = None THEN EmptyMap
                 ELSE store["prefix_index"][1],
                 toUpperCase(prefix), prefix, number)

handleSearch(store, query) ==
    IF store["all_tasks"] = None
    THEN [status |-> 200,
          body |-> [error |-> "Database not initialized", tasks |-> <<>>, total |-> 0]]
    ELSE LET tasks == store["all_tasks"][1]
             prefixIndex == IF store["prefix_index"] = None THEN EmptyMap
                            ELSE store["prefix_index"][1]
             results == searchTasks(tasks, prefixIndex, query)
         IN  [status |-> 200,
              body |-> [query |-> query, tasks |-> results, count |-> Len(results),
                        total |-> Len(tasks), lastUpdated |-> store["last_updated"]]]

\* GET /api/filters: the body of the response
handleFilters(store) ==
    LET parsed(key, default) == IF store[key] = None THEN default ELSE store[key][1]
    IN  [projects |-> parsed("filter_projects", <<>>),
         statuses |-> parsed("filter_statuses", <<>>),
         assignees |-> parsed("filter_assignees", <<>>),
         currentPersonId |-> store["current_person_id"],
         changedTaskIds |-> parsed("changed_task_ids", <<>>)]

\* the ticket paths requested: a stored key in either case, a number no
\* ticket has, a number with a leading zero, a second prefix, a prefix with
\* a numeric suffix
BrowseRequests ==
    {[prefix |-> PRIM, number |-> <<"1">>],
     [prefix |-> <<"p","r","i","m">>, number |-> <<"2">>],
     [prefix |-> PRIM, number |-> <<"7">>],
     [prefix |-> PRIM, number |-> <<"0","1">>],
     [prefix |-> PRIM \o <<"E">>, number |-> <<"1">>],
     [prefix |-> PRIM2, number |-> <<"1">>]}

\* the queries requested: none, a ticket key, a word, a number
SearchRequests == {<<>>, PRIM \o <<"-","1">>, <<"o","p","e","n">>, <<"1">>}

\* GET /browse/<prefix>-<number>
Browse ==
    /\ \E r \in BrowseRequests :
          search' = [stage |-> "served", handler |-> "browse", request |-> r,
                     response |-> handleBrowse(kv, r.prefix, r.number)]
    /\ UNCHANGED <<kv, sync, lastFetched, passes, gen, env, issued, setup>>

\* GET /api/search?q=<query>
SearchApi ==
    /\ \E q \in SearchRequests :
          search' = [stage |-> "served", handler |-> "search", request |-> q,
                     response |-> handleSearch(kv, q)]
    /\ UNCHANGED <<kv, sync, lastFetched, passes, gen, env, issued, setup>>

\* GET /browse/<word>-<digits> and GET /api/search?q=<word> <digits>, both
\* answered from one store
BrowseAndSearch ==
    /\ search.stage = "asked"
    /\ search.sep = <<" ">> /\ ~search.padded
    /\ LET store == [k \in StoreKeys |->
                        IF k = "all_tasks" THEN Some(search.tasks)
                        ELSE IF k = "prefix_index" THEN Some(search.prefixIndex)
                        ELSE None]
       IN  search' = [search EXCEPT
                        !.stage = "browsed",
                        !.browsed = Some(handleBrowse(store, search.word,
                                                      search.number.text)),
                        !.results = Some(handleSearch(store, AskedQuery).body.tasks),
                        !.exact = Some(ExactMatch(search.tasks, search.prefixIndex,
                                                  parseSearchQuery(AskedQuery)))]
    /\ UNCHANGED <<kv, sync, lastFetched, passes, gen, env, issued, setup>>

NextLookup == BrowseAndSearch

\* a ticket looked up by its path and by a search for its key
SpecLookup == InitSearch /\ [][NextLookup]_vars

\* a pass that starts while requests are served
StartServed(s) ==
    /\ passes < MaxServedSyncs
    /\ StartAlone(s)

NextServe ==
    \/ \E s \in Triggers :
          \/ StartServed(s)
          \/ FetchPage(s)
          \/ Persist(s)
          \/ Return(s)
    \/ Browse
    \/ SearchApi

\* read requests before, during and after the syncs
SpecServe == Init /\ [][NextServe]_vars

(***************************************************************************)
(* Setup, login and the router of fetch                                    *)
(*                                                                         *)
(* A request is its method, its path, the token of its bp_session cookie,  *)
(* the token parameter of its URL and its form or JSON body. A response is *)
(* its status, its Location header and what its body holds.                *)
(***************************************************************************)
\* a logout that leaves the session in the store
destroySessionKeeping(cookie, store) == store

\* lines 118-124: the session the cookie names is deleted
destroySession(cookie, store) ==
    IF cookie = None THEN store
    ELSE [store EXCEPT ![SessionKey(cookie[1])] = None]

\* lines 70-76: the SHA-256 digest of the PIN in hexadecimal
hashPin(pin) == <<"sha256">> \o pin

\* /^\d{4,8}$/
PinFormat(pin) == Len(pin) \in 4..8 /\ \A i \in 1..Len(pin) : IsDigit(pin[i])

\* lines 84-101
isAuthenticated(cookie, e, store) ==
    IF ~getConfig(e, store).isProtected THEN TRUE
    ELSE IF cookie = None THEN FALSE
    ELSE store[SessionKey(cookie[1])] # None

Redirect(to) == [status |-> 302, location |-> to, body |-> "none"]
Page(title) == [status |-> 200, location |-> "none", body |-> title]
Json(status, body) == [status |-> status, location |-> "none", body |-> body]

StaticAssets == {"/logo.svg"}
\* the paths that start with an entry of publicRoutes = ['/api/']
PublicRoutes == {"/api/search", "/api/prefixes", "/api/filters", "/api/settings"}
Paths == StaticAssets \cup PublicRoutes
         \cup {"/", "/browse/PRIM-1", "/update", "/nowhere",
               "/setup", "/login", "/logout"}

\* the router answers the request itself, or the request goes to a handler
Answer(response) == [handler |-> "router", response |-> response]
Goes(to) == [handler |-> to, response |-> None]

\* lines 197-250: the path /setup
RouteSetup(request, config) ==
    IF config.isConfigured THEN Answer(Redirect("/"))
    ELSE IF config.setupToken # None /\ request.token # config.setupToken
    THEN Answer(Page("Setup Required"))
    ELSE IF request.method = "POST" THEN Goes("handleSetupPost")
    ELSE Answer(Page("Welcome"))

\* lines 255-287: the path /login
RouteLogin(request, config, authenticated) ==
    IF ~config.isConfigured THEN Answer(Redirect("/setup"))
    ELSE IF ~config.isProtected THEN Answer(Redirect("/"))
    ELSE IF authenticated THEN Answer(Redirect("/"))
    ELSE IF request.method = "POST" THEN Goes("handleLoginPost")
    ELSE Answer(Page("Login"))

\* lines 327-350: the main application routes
RouteApplication(path) ==
    CASE path = "/browse/PRIM-1" -> Goes("handleBrowse")
      [] path = "/" -> Goes("renderSearchPage")
      [] path = "/api/search" -> Goes("handleSearch")
      [] path = "/api/prefixes" -> Goes("handlePrefixes")
      [] path = "/api/filters" -> Goes("handleFilters")
      [] path = "/api/settings" -> Goes("handleSettings")
      [] path = "/update" -> Goes("handleManualUpdate")
      [] OTHER -> Answer([status |-> 404, location |-> "none",
                          body |-> "Not Found"])

\* lines 171-356: what the router does with a request before any handler
\* runs
Route(request, e, store) ==
    LET config == getConfig(e, store)
        authenticated == isAuthenticated(request.cookie, e, store)
    IN  CASE request.method = "OPTIONS" -> Answer(Page("preflight"))
          [] request.method # "OPTIONS" /\ request.path \in StaticAssets ->
                Answer(Page("asset"))
          [] request.method # "OPTIONS" /\ request.path = "/setup" ->
                RouteSetup(request, config)
          [] request.method # "OPTIONS" /\ request.path = "/login" ->
                RouteLogin(request, config, authenticated)
          [] request.method # "OPTIONS" /\ request.path = "/logout" ->
                Goes("destroySession")
          [] OTHER ->
                IF ~config.isConfigured THEN Answer(Redirect("/setup"))
                ELSE IF /\ request.path \notin PublicRoutes
                        /\ config.isProtected
                        /\ ~authenticated
                THEN Answer(Redirect("/login"))
                ELSE RouteApplication(request.path)

\* the handlers that only read the store
ReadHandlers == {"handleBrowse", "renderSearchPage", "handleSearch",
                 "handlePrefixes", "handleFilters"}

\* lines 1064-1074: the body of the response
handlePrefixes(store) ==
    [prefixMap |-> IF store["prefix_map"] = None THEN EmptyMap
                   ELSE store["prefix_map"][1],
     prefixIndex |-> IF store["prefix_index"] = None THEN EmptyMap
                     ELSE store["prefix_index"][1]]

\* handleBrowse's response with its Location header
Located(r) ==
    [status |-> r.status,
     location |-> IF r.status = 302 THEN r.body ELSE "none", body |-> r.body]

\* lines 1229-1240: what renderSearchPage reads from the store
renderSearchPage(store) ==
    [page |-> "search page", taskCount |-> store["task_count"],
     assignedCount |-> store["assigned_count"],
     lastUpdated |-> store["last_updated"]]

\* the response of a handler that only reads the store; /api/search is
\* asked for the text "t"
Read(handler, store) ==
    CASE handler = "handleBrowse" -> Located(handleBrowse(store, PRIM, <<"1">>))
      [] handler = "handleSearch" -> Json(200, handleSearch(store, <<"t">>).body)
      [] handler = "handlePrefixes" -> Json(200, handlePrefixes(store))
      [] handler = "handleFilters" -> Json(200, handleFilters(store))
      [] handler = "renderSearchPage" -> Json(200, renderSearchPage(store))

\* the paths where the router may look at the session
SessionPaths == {"/", "/browse/PRIM-1", "/update", "/login", "/logout"}

\* the requests served: GET for every path, POST where a handler looks at
\* the method, a preflight; with no cookie or, where the router may look at
\* the session, the cookie of any token, issued or not; with or without the
\* setup token on /setup
Requests ==
    {r \in [method : {"GET", "POST", "OPTIONS"}, path : Paths,
            cookie : Cookies, token : {None, Some(SetupSecret)},
            body : {None}] :
        /\ r.token # None => r.path = "/setup"
        /\ r.method = "POST" => r.path \in {"/setup", "/login", "/api/settings"}
        /\ r.method = "OPTIONS" => r.path = "/api/search"
        /\ r.cookie # None => r.method # "OPTIONS" /\ r.path \in SessionPaths}

Served(handler, request, response) ==
    [stage |-> "served", handler |-> handler, request |-> request,
     response |-> response]

\* a request the router answers itself, or one that goes to a handler that
\* only reads the store
Serve ==
    \E request \in Requests :
        LET route == Route(request, env, kv)
        IN  /\ route.handler \in ReadHandlers \cup {"router"}
            /\ search' = Served(route.handler, request,
                                IF route.handler = "router" THEN route.response
                                ELSE Read(route.handler, kv))
            /\ UNCHANGED <<kv, sync, lastFetched, passes, gen, env, issued, setup>>

\* the forms posted to /setup: a field left empty, a PIN the format rejects,
\* a PIN typed with a space after it
SetupForms ==
    {[api_token |-> <<>>, app_pin |-> Pin1234],
     [api_token |-> WizardApiToken, app_pin |-> <<>>],
     [api_token |-> WizardApiToken, app_pin |-> PinShort],
     [api_token |-> WizardApiToken, app_pin |-> Pin1234 \o <<" ">>]}

\* lines 363-440: POST /setup; test is whether the API accepted the token in
\* the test request
SetupPost ==
    \E request \in Requests, form \in SetupForms, test \in BOOLEAN :
        LET appPin == trim(form.app_pin)
            stored == /\ trim(form.api_token) # <<>> /\ appPin # <<>>
                      /\ test /\ PinFormat(appPin)
        IN  /\ Route(request, env, kv).handler = "handleSetupPost"
            /\ kv' = IF stored
                     THEN [kv EXCEPT !["config_api_token"] = Some(trim(form.api_token)),
                                     !["config_app_pin"] = Some(hashPin(appPin))]
                     ELSE kv
            /\ search' = Served("handleSetupPost",
                                [request EXCEPT !.body = Some(form)],
                                IF stored THEN Redirect("/login")
                                ELSE Page("Welcome"))
            /\ UNCHANGED <<sync, lastFetched, passes, gen, env, issued, setup>>

\* the PINs posted to /login: none, and the two PINs, one typed with a space
\* before it
LoginPins == {<<>>, Pin1234, <<" ">> \o Pin9999}

\* lines 456-470: whether a trimmed PIN is the right one
isValidPin(pin, e, store) ==
    IF e.APP_PIN # None THEN pin = e.APP_PIN[1]
    ELSE IF store["config_app_pin"] # None
    THEN hashPin(pin) = store["config_app_pin"][1]
    ELSE FALSE

\* lines 442-502 and 103-116: POST /login; a session is created under a
\* token generateSessionToken did not return before
LoginPost ==
    \E request \in Requests, form \in LoginPins :
        LET pin == trim(form)
            posted == [request EXCEPT !.body = Some(form)]
        IN  /\ Route(request, env, kv).handler = "handleLoginPost"
            /\ IF pin # <<>> /\ isValidPin(pin, env, kv)
               THEN \E token \in Tokens :
                       /\ issued[token] = "unissued"
                       /\ kv' = [kv EXCEPT ![SessionKey(token)] = Some("created")]
                       /\ issued' = [issued EXCEPT ![token] = "valid"]
                       /\ search' = Served("handleLoginPost", posted,
                                           [status |-> 302, location |-> "/",
                                            body |-> Some(token)])
               ELSE /\ search' = Served("handleLoginPost", posted, Page("Login"))
                    /\ UNCHANGED <<kv, issued>>
            /\ UNCHANGED <<sync, lastFetched, passes, gen, env, setup>>

\* lines 289-302: any request for /logout
Logout ==
    \E request \in Requests :
        /\ Route(request, env, kv).handler = "destroySession"
        /\ kv' = destroySession(request.cookie, kv)
        /\ issued' = IF request.cookie # None
                        /\ issued[request.cookie[1]] = "valid"
                     THEN [issued EXCEPT ![request.cookie[1]] = "loggedOut"]
                     ELSE issued
        /\ search' = Served("destroySession", request, Redirect("/login"))
        /\ UNCHANGED <<sync, lastFetched, passes, gen, env, setup>>

\* expirationTtl: the store drops a session seven days after its creation
Expire ==
    \E token \in Tokens :
        /\ kv[SessionKey(token)] # None
        /\ kv' = [kv EXCEPT ![SessionKey(token)] = None]
        /\ issued' = [issued EXCEPT ![token] = "expired"]
        /\ UNCHANGED <<sync, lastFetched, passes, gen, search, env, setup>>

\* the bodies posted to /api/settings: no action, a title, a PIN of either
\* format, a token, an action the handler does not know
SettingsBodies ==
    {[action |-> "none", value |-> <<>>],
     [action |-> "title", value |-> <<"T">>],
     [action |-> "pin", value |-> Pin9999],
     [action |-> "pin", value |-> PinShort],
     [action |-> "token", value |-> SettingsApiToken],
     [action |-> "theme", value |-> <<"x">>]}

\* lines 1094-1163: the response to a request for /api/settings
handleSettings(method, body, test) ==
    CASE method # "POST" -> Json(405, [error |-> "Method not allowed"])
      [] method = "POST" /\ body.action = "none" ->
            Json(400, [error |-> "Missing action or value"])
      [] method = "POST" /\ body.action = "pin" /\ ~PinFormat(body.value) ->
            Json(400, [error |-> "PIN must be 4-8 digits"])
      [] method = "POST" /\ body.action = "token" /\ ~test ->
            Json(400, [error |-> "Invalid API token"])
      [] method = "POST" /\ body.action \notin {"none", "title", "pin", "token"} ->
            Json(400, [error |-> "Unknown action"])
      [] OTHER -> Json(200, [success |-> TRUE])

\* lines 1094-1163: the store after a request for /api/settings; the page
\* title is kept under a key nothing else reads, which the store of the
\* model leaves out
SettingsStored(store, method, body, test) ==
    CASE method = "POST" /\ body.action = "pin" /\ PinFormat(body.value) ->
            [store EXCEPT !["config_app_pin"] = Some(hashPin(body.value))]
      [] method = "POST" /\ body.action = "token" /\ test ->
            [store EXCEPT !["config_api_token"] = Some(body.value),
                          !["current_person_id"] = None]
      [] OTHER -> store

\* any request for /api/settings; test is whether the API accepted the token
\* in the test request
Settings ==
    \E request \in Requests, body \in SettingsBodies, test \in BOOLEAN :
        /\ Route(request, env, kv).handler = "handleSettings"
        /\ request.method # "POST" => body.action = "none" /\ test
        /\ search' = Served("handleSettings",
                            [request EXCEPT !.body = Some(body)],
                            handleSettings(request.method, body, test))
        /\ kv' = SettingsStored(kv, request.method, body, test)
        /\ UNCHANGED <<sync, lastFetched, passes, gen, env, issued, setup>>

\* a pass that starts on a deployment whose configuration varies
StartConfigured(s) ==
    /\ passes < MaxAuthSyncs
    /\ StartAlone(s)

\* lines 1165-1224: a request for /update the router lets through starts a
\* pass
ManualUpdate ==
    \E request \in Requests :
        /\ Route(request, env, kv).handler = "handleManualUpdate"
        /\ StartConfigured("manual")

\* lines 160-168: the scheduled trigger fires
Scheduled == StartConfigured("cron")

\* the secrets of a deployment: none, a setup token, the API token, the API
\* token and the PIN
Deployments ==
    {NoSecrets,
     [NoSecrets EXCEPT !.SETUP_TOKEN = Some(SetupSecret)],
     SecretsSet,
     [SecretsSet EXCEPT !.APP_PIN = Some(Pin1234)]}

\* a page that holds the oldest task and no next link
OldestTaskPages == {x \in SingleTaskResponses : x.data[1].id = 1 /\ ~x.next}

\* the locals of a first scheduled pass that is given such a page under
\* either filter, after the second fetch
FirstFetched ==
    {MergedPass(subscribed, page) :
        subscribed \in {MergedPass(started, first) :
                           started \in {Started("cron", SecretsSet,
                                                [k \in StoreKeys |-> None])},
                           first \in OldestTaskPages},
        page \in OldestTaskPages}

\* the store before the first pass, and the stores after it
Stores ==
    {[kv |-> [k \in StoreKeys |-> None], lastFetched |-> EmptyMap]}
    \cup {[kv |-> ApplyWrites([k \in StoreKeys |-> None],
                              ReconciledPass(fetched, EmptyMap).pending),
           lastFetched |-> fetched.taskMap] : fetched \in FirstFetched}

\* a deployment before its first request: one with the API token as a
\* secret after its first scheduled pass, one without before its setup
InitAuth ==
    /\ \E first \in Stores, e \in Deployments :
          /\ first.kv["all_tasks"] # None <=> e.PRODUCTIVE_API_TOKEN # None
          /\ env = e
          /\ kv = first.kv
          /\ lastFetched = first.lastFetched
    /\ sync = [s \in Triggers |-> IdleSync]
    /\ passes = 0
    /\ issued = [t \in Tokens |-> "unissued"]
    /\ setup = None
    /\ gen = NoGen
    /\ search = NoSearch

NextAuth ==
    \/ Serve
    \/ SetupPost
    \/ LoginPost
    \/ Logout
    \/ Expire
    \/ Settings
    \/ ManualUpdate

\* setup, logins, logouts, settings and the start of a manual sync on one
\* deployment
SpecAuth == InitAuth /\ [][NextAuth]_vars

\* the API answers every request with a page that holds the oldest task
FetchOldestTaskPage(s) ==
    /\ Fetching(s)
    /\ \E response \in OldestTaskPages : Receive(s, response)
    /\ UNCHANGED <<kv, passes, gen, search, env, issued, setup>>

\* a deployment before its first request
InitConfig ==
    /\ InitStore
    /\ env \in Deployments
    /\ gen = NoGen
    /\ search = NoSearch

NextConfig ==
    \/ SetupPost
    \/ Settings
    \/ ManualUpdate
    \/ Scheduled
    \/ \E s \in Triggers :
          \/ FetchOldestTaskPage(s)
          \/ Persist(s)
          \/ Return(s)

\* the syncs of a deployment whose configuration changes
SpecConfig == InitConfig /\ [][NextConfig]_vars


\* the forms the wizard finds nothing wrong with
AcceptedForms ==
    {form \in SetupForms :
        /\ trim(form.api_token) # <<>>
        /\ PinFormat(trim(form.app_pin))}

\* line 420: await env.TASKS_KV.put('config_api_token', apiToken)
SetupFirstPut(store, form) ==
    [store EXCEPT !["config_api_token"] = Some(trim(form.api_token))]

\* lines 363-420: a POST /setup whose form passes every test and whose token
\* the API accepted, up to the first put
SetupPutToken ==
    \E request \in Requests, form \in AcceptedForms :
        /\ setup = None
        /\ Route(request, env, kv).handler = "handleSetupPost"
        /\ kv' = SetupFirstPut(kv, form)
        /\ setup' = Some([request |-> [request EXCEPT !.body = Some(form)],
                          hashedPin |-> hashPin(trim(form.app_pin))])
        /\ UNCHANGED <<sync, lastFetched, passes, gen, search, env, issued>>

\* lines 421-425: the digest is put and the client is sent to /login
SetupPutPin ==
    /\ setup # None
    /\ kv' = [kv EXCEPT !["config_app_pin"] = Some(setup[1].hashedPin)]
    /\ search' = Served("handleSetupPost", setup[1].request, Redirect("/login"))
    /\ setup' = None
    /\ UNCHANGED <<sync, lastFetched, passes, gen, env, issued>>

\* lines 427-439: hashPin or the second put throws and the catch block
\* renders the form again with 'Setup failed'
SetupFails ==
    /\ setup # None
    /\ search' = Served("handleSetupPost", setup[1].request, Page("Welcome"))
    /\ setup' = None
    /\ UNCHANGED <<kv, sync, lastFetched, passes, gen, env, issued>>

\* a deployment without the API token as a secret, before its first request
InitSetup ==
    /\ InitStore
    /\ env \in {e \in Deployments : e.PRODUCTIVE_API_TOKEN = None}
    /\ gen = NoGen
    /\ search = NoSearch

NextSetup ==
    \/ SetupPutToken
    \/ SetupPutPin
    \/ SetupFails
    \/ Serve
    \/ LoginPost
    \/ ManualUpdate

\* the setup wizard, each of its puts a step of its own, beside the other
\* requests
SpecSetup == InitSetup /\ [][NextSetup]_vars

(***************************************************************************)
(* Properties of the sync passes (Spec)                                    *)
(***************************************************************************)
\* the stored task list; empty before the first sync
StoredTasks == IF kv["all_tasks"] = None THEN <<>> ELSE kv["all_tasks"][1]
StoredIds(store) ==
    IF store["all_tasks"] = None THEN {}
    ELSE {store["all_tasks"][1][i].id : i \in 1..Len(store["all_tasks"][1])}
ElemsOf(seq) == {seq[i] : i \in 1..Len(seq)}
StoredList(key) == IF kv[key] = None THEN <<>> ELSE kv[key][1]

\* pass s has persisted everything and not yet returned
Done(s) == sync[s].pc = "done"
\* the snapshot the pass read when it started
Prior(s) == ElemsOf(sync[s].existingTasks)
\* the ids the two fetches of the pass returned
FetchedIds(s) == DOMAIN sync[s].firstSeen
\* the records of the prior snapshot that were live and are gone from the API
Vanished(s) == {p \in Prior(s) : ~p.deleted /\ p.id \notin FetchedIds(s)}
StoredWithId(id) == {t \in ElemsOf(StoredTasks) : t.id = id}

\* C1 as stated: a live task of the prior snapshot that no fetch returns is
\* stored with deleted = TRUE, status "Unknown" and every other field,
\* projectPrefix and ticketKey included, as in the prior snapshot
CexC1_TombstoneKeepsEveryField ==
    \A s \in Triggers : Done(s) =>
        \A p \in Vanished(s) :
            StoredWithId(p.id) = {[p EXCEPT !.deleted = TRUE, !.status = Unknown]}

\* the prefix the pass stamps on a record carried forward
RestampedPrefix(p) ==
    IF p.projectId \in DOMAIN StoredList("prefix_map")
    THEN StoredList("prefix_map")[p.projectId]
    ELSE p.projectPrefix

\* C1, amended: a live task of the prior snapshot that no fetch returns is
\* stored with deleted = TRUE, status "Unknown" and id, ticketNumber, title,
\* projectId, project, assignee, dueDate, createdAt, updatedAt and url as in
\* the prior snapshot; its projectPrefix is the prefix this sync assigned to
\* its project if the sync observed that project and the prior projectPrefix
\* otherwise, and its ticketKey is projectPrefix-ticketNumber
ThmC1_TombstonePreservation ==
    \A s \in Triggers : Done(s) =>
        \A p \in Vanished(s) :
            StoredWithId(p.id) =
                {[p EXCEPT !.deleted = TRUE,
                           !.status = Unknown,
                           !.projectPrefix = RestampedPrefix(p),
                           !.ticketKey = RestampedPrefix(p) \o <<"-">>
                                             \o Digits(p.ticketNumber)]}

\* a sync has tombstoned a task that had a status of its own
WitC1_Tombstoned ==
    \E s \in Triggers : Done(s) /\ \E p \in Vanished(s) : p.status # Unknown

\* C2: no step removes a task id from the stored task list
ThmC2_AppendOnly == [][StoredIds(kv) \subseteq StoredIds(kv')]_vars

\* a later sync has kept a task that none of its fetches returned
WitC2_KeptVanished ==
    \E s \in Triggers : Done(s) /\ passes >= 2 /\ \E p \in Prior(s) :
        p.id \notin FetchedIds(s) /\ StoredWithId(p.id) # {}

\* C3: once a task-page request of a pass got an error response the pass is
\* aborted with an error carrying status and body, issues no further request
\* and no blob changes; nor does any blob change while a pass is fetching
ThmC3_FailureLeavesSnapshot ==
    [][\A s \in Triggers :
          /\ sync'[s].error # None =>
                /\ sync'[s].pc = "failed"
                /\ sync'[s].error[1][1] = "API error"
                /\ sync'[s].error[1][2] \in ErrorStatuses
                /\ sync'[s].error[1][3] = "upstream error"
                /\ sync'[s].pending = <<>>
                /\ \A k \in SnapshotKeys : kv'[k] = kv[k]
          /\ sync[s].error # None =>
                /\ \A k \in SnapshotKeys : kv'[k] = kv[k]
                /\ sync'[s] = IdleSync \/ sync'[s].requests = sync[s].requests
          /\ sync[s].pc = "fetch" => \A k \in SnapshotKeys : kv'[k] = kv[k]]_vars

\* a pass has failed on a later request, over a snapshot stored earlier
WitC3_FailedAfterFetching ==
    \E s \in Triggers :
        /\ sync[s].pc = "failed"
        /\ sync[s].requests >= 2
        /\ DOMAIN sync[s].taskMap # {}
        /\ kv["all_tasks"] # None

\* C4: after a sync, a live stored task is in the new-id list exactly if the
\* prior snapshot has no record of its id, in the updated-id list exactly if
\* the prior snapshot has a record of its id with another updatedAt, and a
\* tombstoned task is in neither list
ThmC4_ChangeDetection ==
    \A s \in Triggers : Done(s) =>
        \A t \in ElemsOf(StoredTasks) :
            LET isNew == t.id \in ElemsOf(StoredList("new_task_ids"))
                isUpdated == t.id \in ElemsOf(StoredList("updated_task_ids"))
                prior == {p \in Prior(s) : p.id = t.id}
            IN  IF t.deleted THEN ~isNew /\ ~isUpdated
                ELSE /\ isNew <=> prior = {}
                     /\ isUpdated <=> \E p \in prior : p.updatedAt # t.updatedAt

\* a sync has stored a new task, an updated one and a tombstone together
WitC4_NewUpdatedTombstone ==
    \E s \in Triggers :
        /\ Done(s)
        /\ StoredList("new_task_ids") # <<>>
        /\ StoredList("updated_task_ids") # <<>>
        /\ \E t \in ElemsOf(StoredTasks) : t.deleted

ThmC6_Deduplication ==
    \A s \in Triggers : Done(s) =>
        /\ Cardinality(StoredIds(kv)) = Len(StoredTasks)
        /\ \A id \in FetchedIds(s) :
              LET first == sync[s].firstSeen[id]
              IN  \E t \in StoredWithId(id) :
                     /\ StoredWithId(id) = {t}
                     /\ ~t.deleted
                     /\ t.updatedAt = first.updated_at
                     /\ t.status = StatusNames[first.workflow_status]
                     /\ t.title = first.title
                     /\ t.ticketNumber = first.number
                     /\ t.projectId = first.project
                     /\ t.assigneeId = first.assignee

\* a sync has stored a task that its fetches returned twice, in two versions
WitC6_ReturnedTwice ==
    \E s \in Triggers : Done(s) /\ sync[s].sawDuplicate

\* the project ids of the stored prefix map, and those the stored prefix index
\* points to
MappedProjects(store) ==
    IF store["prefix_map"] = None THEN {} ELSE DOMAIN store["prefix_map"][1]
IndexedProjects(store) ==
    IF store["prefix_index"] = None THEN {}
    ELSE {store["prefix_index"][1][x] : x \in DOMAIN store["prefix_index"][1]}

\* C11 as stated: no step removes a project from the stored prefix map or
\* from the stored prefix index, whatever the later sync's pages include
CexC11_PrefixesNeverDropped ==
    [][/\ MappedProjects(kv) \subseteq MappedProjects(kv')
       /\ IndexedProjects(kv) \subseteq IndexedProjects(kv')]_vars

\* C12 as stated: no two records of the stored task list, tombstones
\* included, have the same ticketKey
CexC12_TicketKeysDistinct ==
    \A i, j \in 1..Len(StoredTasks) :
        i # j => StoredTasks[i].ticketKey # StoredTasks[j].ticketKey

\* the name of the entry with this id in a table of {id, name} entries
NamesIn(entries, id) ==
    {entries[i].name : i \in {j \in 1..Len(entries) : entries[j].id = id}}
\* the names of the entries of one type in an included array
NamesOfType(included, type) ==
    {included[i].name : i \in {j \in 1..Len(included) : included[j].type = type}}

\* C13 as stated: a fetched task is stored with the name of its project, of
\* its assignee and of its workflow status whenever any page of the sync,
\* of either filter, included that entity
CexC13_CrossPageResolution ==
    \A s \in Triggers : Done(s) =>
        \A id \in FetchedIds(s) : \A t \in StoredWithId(id) :
            LET first == sync[s].firstSeen[id]
            IN  /\ NamesIn(sync[s].allProjects, t.projectId) \subseteq {t.project}
                /\ NamesIn(sync[s].allAssignees, t.assigneeId) \subseteq {t.assignee}
                /\ first.workflow_status \in DOMAIN sync[s].seenStatuses
                      => t.status = sync[s].seenStatuses[first.workflow_status]

\* C13, amended: a fetched task is stored with the names its project, its
\* assignee and its workflow status have in the included array of the page
\* the task was first returned on; an entity that page did not include gives
\* "No Project", "Unassigned", and for the status the task's own
\* workflow_status_name attribute or else "Unknown", whatever other pages
\* included
ThmC13_SamePageResolution ==
    \A s \in Triggers : Done(s) =>
        \A id \in FetchedIds(s) : \A t \in StoredWithId(id) :
            LET first == sync[s].firstSeen[id]
                inc == sync[s].firstIncluded[id]
                projects == NamesOfType(inc, "projects")
                people == NamesOfType(inc, "people")
                statuses == NamesOfType(inc, "workflow_statuses")
            IN  /\ {t.project} = IF projects = {} THEN {NoProject} ELSE projects
                /\ {t.assignee} = IF people = {} THEN {Unassigned} ELSE people
                /\ {t.status} =
                      IF statuses # {} THEN statuses
                      ELSE IF first.workflow_status_name # <<>>
                      THEN {first.workflow_status_name}
                      ELSE {Unknown}

\* a sync has stored a task without its project's name although another page
\* of the same sync included that project
WitC13_IncludedElsewhere ==
    \E s \in Triggers : Done(s) /\ \E id \in FetchedIds(s) :
        \E t \in StoredWithId(id) :
            /\ t.project = NoProject
            /\ NamesIn(sync[s].allProjects, t.projectId) # {}

(***************************************************************************)
(* Properties of the fetch loop (SpecPaging)                               *)
(***************************************************************************)
\* the requests of the current filter are those for pages 1..page-1, and the
\* subscribed filter took at most PageCap requests
CountedPages(s) ==
    /\ sync[s].requests <= 2 * PageCap
    /\ sync[s].pc = "fetch" =>
          /\ sync[s].page \in 1..PageCap
          /\ sync[s].filter = "subscribed" => sync[s].requests = sync[s].page - 1
          /\ sync[s].filter = "assigned" =>
                sync[s].requests - (sync[s].page - 1) \in 1..PageCap

\* a request is for the page after the last one of its filter; the loop goes
\* on to the next page only after a response with a next link and below the
\* cap, and otherwise the filter, or the pass with an error, is over
PageStep(s) ==
    sync'[s].requests # sync[s].requests /\ sync[s].pc = "fetch" =>
        /\ sync'[s].requests = sync[s].requests + 1
        /\ sync[s].hasMore /\ sync[s].page <= PageCap
        /\ \/ /\ sync'[s].pc = "fetch" /\ sync'[s].filter = sync[s].filter
               /\ sync'[s].page = sync[s].page + 1
               /\ sync'[s].hasMore /\ sync[s].page < PageCap
           \/ /\ sync'[s].pc = "fetch" /\ sync[s].filter = "subscribed"
               /\ sync'[s].filter = "assigned" /\ sync'[s].page = 1
           \/ /\ sync'[s].pc = "put" /\ sync[s].filter = "assigned"
           \/ /\ sync'[s].pc = "failed" /\ sync'[s].error # None

\* C14: each filter's loop requests pages 1, 2, 3, ... in order, stops at the
\* first response without a next link or after page 25, so that a sync issues
\* at most 25 requests per filter and 50 in all, and a sync that has started
\* fetching comes to its end
ThmC14_BoundedPagination ==
    /\ [](\A s \in Triggers : CountedPages(s))
    /\ [][\A s \in Triggers : PageStep(s)]_vars
    /\ \A s \in Triggers : (sync[s].pc = "fetch") ~> (sync[s].pc = "idle")

\* a sync has requested 25 pages of each filter, every response advertising
\* a next link, and has gone on to persist
WitC14_FiftyRequests ==
    \E s \in Triggers : Done(s) /\ sync[s].requests = 2 * PageCap

(***************************************************************************)
(* Properties of overlapping passes (SpecOverlap)                          *)
(***************************************************************************)
\* the task list and the prefix map a pass that has reconciled writes
WrittenTasks(s) ==
    StampAll(SortDesc(sync[s].taskMap), sync[s].summary[1].prefixes)
WrittenPrefixes(s) == sync[s].summary[1].prefixes

\* C15: a pass may start while another is fetching or putting; every change
\* of the store is one put of one pass, which overwrites one blob with that
\* pass's value and leaves the other blobs as the other pass left them
ThmC15_LastWriterWinsPerKey ==
    [][kv' # kv =>
          \E s \in Triggers :
              /\ sync[s].pc = "put"
              /\ sync'[s].pending = Tail(sync[s].pending)
              /\ LET write == Head(sync[s].pending)
                 IN  /\ kv'[write[1]] = Some(write[2])
                     /\ \A k \in BlobKeys \ {write[1]} : kv'[k] = kv[k]]_vars

\* two passes have overlapped and both have finished; the stored task list
\* is the one pass a wrote and not the one pass b wrote, the stored prefix
\* map is the one pass b wrote and not the one pass a wrote
WitC15_MixedSnapshot ==
    \E a, b \in Triggers :
        /\ a # b /\ Done(a) /\ Done(b)
        /\ kv["all_tasks"] = Some(WrittenTasks(a))
        /\ WrittenTasks(a) # WrittenTasks(b)
        /\ kv["prefix_map"] = Some(WrittenPrefixes(b))
        /\ WrittenPrefixes(a) # WrittenPrefixes(b)

(***************************************************************************)
(* Properties of prefix generation (SpecPrefix)                            *)
(***************************************************************************)
Generated == gen.stage \in {"generated", "reordered"}
GenIds == {gen.projects[i].id : i \in 1..Len(gen.projects)}
GenNames == {gen.projects[i].name : i \in 1..Len(gen.projects)}
PrefixOfName(name) ==
    gen.prefixes[1].prefixMap[
        (CHOOSE i \in 1..Len(gen.projects) : gen.projects[i].name = name)]

\* prefixMap and prefixIndex are inverse bijections over the given ids
InverseBijections(r, ids) ==
    /\ DOMAIN r.prefixMap = ids
    /\ \A a, b \in ids : a # b => r.prefixMap[a] # r.prefixMap[b]
    /\ DOMAIN r.prefixIndex = {r.prefixMap[a] : a \in ids}
    /\ \A a \in ids : r.prefixIndex[r.prefixMap[a]] = a

\* C7: generateAllPrefixes gives projects with distinct ids pairwise distinct
\* prefixes, and prefixMap and prefixIndex are inverse bijections
ThmC7_PrefixesDistinct ==
    /\ Generated => InverseBijections(gen.prefixes[1], GenIds)
    /\ gen.stage = "reordered" => InverseBijections(gen.prefixesReordered[1], GenIds)

\* prefixes were generated for a repeated name together with a name without
\* letters or one shorter than the minimum length
WitC7_RepeatedAndOddNames ==
    /\ gen.stage = "generated"
    /\ Cardinality(GenNames) < Len(gen.projects)
    /\ \E n \in GenNames : Len(AlphaOf(n)) < DefaultMinLength

\* C8 as stated: the same projects in another order get the same mappings
CexC8_OrderIndependent ==
    gen.stage = "reordered" => gen.prefixesReordered = gen.prefixes

\* C9 as stated: "Prime100 Support" gets PRIM, "Prime100 US Support" PRIMU
CexC9_PrimeScenario ==
    (gen.stage = "generated" /\ Len(gen.projects) = 2
        /\ GenNames = {Prime100Support, Prime100USSupport}) =>
            /\ PrefixOfName(Prime100Support) = <<"P","R","I","M">>
            /\ PrefixOfName(Prime100USSupport) = <<"P","R","I","M","U">>

\* upper-case letters, then optionally decimal digits
WellFormedPrefix(prefix) ==
    \E k \in 1..Len(prefix) :
        /\ \A i \in 1..k : IsUpper(prefix[i])
        /\ \A i \in (k + 1)..Len(prefix) : IsDigit(prefix[i])

\* C10 as stated: every generated prefix is upper-case letters with an
\* optional decimal suffix and at least DefaultMinLength characters long
CexC10_PrefixFormat ==
    Generated =>
        \A id \in GenIds :
            /\ WellFormedPrefix(gen.prefixes[1].prefixMap[id])
            /\ Len(gen.prefixes[1].prefixMap[id]) >= DefaultMinLength

(***************************************************************************)
(* Properties of the search functions (SpecSearch)                         *)
(***************************************************************************)
\* the query is letters followed by digits, with or without a separator
LettersThenDigits ==
    /\ search.word # <<>> /\ \A i \in 1..Len(search.word) : IsLetter(search.word[i])
    /\ search.number.text # <<>>

\* the tasks of the searched list with this project and this ticket number
TicketsOf(projectId, number) ==
    {t \in ElemsOf(search.tasks) :
        t.projectId = projectId /\ ~t.numberIsString /\ t.ticketNumber = number}

\* C16 as stated: when the prefix index maps P to project p and some task
\* has projectId p and ticketNumber n, the search for "P n" returns exactly
\* the tasks with projectId p and ticketNumber n
CexC16_ExactMatch ==
    (/\ search.stage = "searched"
     /\ search.sep = <<" ">> /\ ~search.padded
     /\ search.word \in DOMAIN search.prefixIndex
     /\ search.number.text = Digits(search.number.value)
     /\ TicketsOf(search.prefixIndex[search.word], search.number.value) # {})
    => LET hits == TicketsOf(search.prefixIndex[search.word], search.number.value)
       IN  /\ ElemsOf(search.results[1]) = hits
           /\ Len(search.results[1]) = Cardinality(hits)

\* C17 as stated: for letters P and a number n the queries "P n", "P-n" and
\* "Pn" return the same result list
CexC17_SeparatorInsensitive ==
    search.stage = "compared" /\ LettersThenDigits =>
        /\ search.spaced = search.dashed
        /\ search.dashed = search.joined

\* C18: letters L and digits D joined by nothing, a space, a dash or an
\* underscore, in any letter case and with white space around them, parse to
\* the prefix L in upper case and the number D denotes, and to no text
ThmC18_QueryParsing ==
    search.stage = "parsed" /\ LettersThenDigits =>
        /\ search.parsed[1].prefix = Some(toUpperCase(search.word))
        /\ search.parsed[1].number = Some(search.number.value)
        /\ search.parsed[1].text = None

\* a padded mixed-case query with an underscore and leading zeros was parsed
WitC18_PaddedUnderscore ==
    /\ search.stage = "parsed"
    /\ search.word = <<"P","r","i","m">>
    /\ search.sep = <<"_">> /\ search.padded
    /\ search.number.text = <<"0","0","7">>
    /\ search.parsed[1].prefix = Some(PRIM)

\* the exact path finds nothing: a prefix+number query whose prefix is not in
\* the prefix index or whose project has no task with that number, or a
\* digits-only query with no task of that ticket number
ExactFindsNothing ==
    \/ /\ LettersThenDigits
       /\ \/ toUpperCase(search.word) \notin DOMAIN search.prefixIndex
          \/ TicketsOf(search.prefixIndex[toUpperCase(search.word)],
                       search.number.value) = {}
    \/ /\ search.word = <<>> /\ search.number.text # <<>>
       /\ search.sep \in {<<>>, <<" ">>}
       /\ \A t \in ElemsOf(search.tasks) :
             t.numberIsString \/ t.ticketNumber # search.number.value

\* the fields the fuzzy search looks into, in lower case
FuzzyFields(t) ==
    {Digits(t.ticketNumber), toLowerCase(t.ticketKey), toLowerCase(t.title),
     toLowerCase(t.status), toLowerCase(t.assignee), toLowerCase(t.project)}

\* C19: when the exact path finds nothing the result is the tasks one of
\* whose ticket number, ticket key, title, status, assignee and project
\* contains the query as typed, in lower case, by descending id
ThmC19_FuzzyFallback ==
    search.stage = "searched" /\ ExactFindsNothing =>
        LET needle == toLowerCase(AskedQuery)
            found == {t \in ElemsOf(search.tasks) :
                         \E field \in FuzzyFields(t) : Includes(field, needle)}
            results == search.results[1]
        IN  /\ ElemsOf(results) = found
            /\ Len(results) = Cardinality(found)
            /\ \A i, j \in 1..Len(results) : i < j => results[i].id > results[j].id

\* a ticket key whose prefix is not in the prefix index was searched for and
\* the fuzzy search found tasks
WitC19_UnknownPrefixFound ==
    /\ search.stage = "searched"
    /\ LettersThenDigits
    /\ toUpperCase(search.word) \notin DOMAIN search.prefixIndex
    /\ search.results[1] # <<>>

(***************************************************************************)
(* Properties of the read handlers (SpecServe)                             *)
(***************************************************************************)
\* the handler answers a request in this step while no task list is stored
ServedUninitialized(handler) ==
    /\ search' # search
    /\ search'.stage = "served"
    /\ search'.handler = handler
    /\ kv["all_tasks"] = None

\* C20 as stated: while no task list has ever been persisted, a search request
\* and a browse request for a ticket are both answered with status 503 and a
\* text telling the caller to trigger a sync
CexC20_BothUnavailable ==
    [][/\ ServedUninitialized("search") =>
             /\ search'.response.status = 503
             /\ search'.response.body =
                   "Database not initialized. Please trigger /update first."
       /\ ( /\ ServedUninitialized("browse")
            /\ BrowseMatches(search'.request.prefix, search'.request.number) ) =>
             /\ search'.response.status = 503
             /\ search'.response.body =
                   "Database not initialized. Please trigger /update first."]_vars

\* C20 amended: while no task list has ever been persisted, a browse request
\* for a well-formed ticket path is answered with status 503 and a text telling
\* the caller to trigger /update, a browse request for any other path with
\* status 400, and a search request with status 200 and a body that holds the
\* error "Database not initialized", no tasks and a total of 0
ThmC20_UninitializedStore ==
    [][/\ ServedUninitialized("search") =>
             /\ search'.response.status = 200
             /\ search'.response.body =
                   [error |-> "Database not initialized", tasks |-> <<>>, total |-> 0]
       /\ ServedUninitialized("browse") =>
             IF BrowseMatches(search'.request.prefix, search'.request.number)
             THEN /\ search'.response.status = 503
                  /\ search'.response.body =
                        "Database not initialized. Please trigger /update first."
             ELSE search'.response.status = 400]_vars

\* a ticket was browsed after the first sync had failed, and the store was
\* still without a task list
WitC20_BrowsedAfterFailedSync ==
    /\ passes = 1
    /\ \A s \in Triggers : sync[s].pc = "idle"
    /\ kv["all_tasks"] = None
    /\ search.stage = "served"
    /\ search.handler = "browse"
    /\ search.response.status = 503

\* the path is /browse/<letters>-<digits>
WellFormedKey(r) ==
    /\ r.prefix # <<>> /\ Range(r.prefix) \subseteq LowerSet \cup UpperSet
    /\ r.number # <<>> /\ Range(r.number) \subseteq DigitSet

\* the projects the prefix index maps the typed prefix to, whatever its case
ProjectsOfPrefix(prefix) ==
    LET prefixIndex == IF kv["prefix_index"] = None THEN EmptyMap
                       ELSE kv["prefix_index"][1]
    IN  {prefixIndex[k] : k \in {x \in DOMAIN prefixIndex :
                                    toLowerCase(x) = toLowerCase(prefix)}}

\* the stored tasks of a project in projects whose ticket number is written number
TicketsNumbered(projects, number) ==
    {t \in ElemsOf(kv["all_tasks"][1]) :
        t.projectId \in projects /\ Digits(t.ticketNumber) = number}

OneKnownOneNew(s) ==
    /\ Len(sync[s].existingTasks) = 1
    /\ sync[s].existingTasks[1].id = 1
    /\ sync[s].existingTasks[1].updatedAt = "T1"
    /\ FetchedIds(s) = {1, 2}
    /\ sync[s].firstSeen[1].updated_at = "T1"

\* C25: the summary a sync returns agrees with what it persisted: taskCount
\* is the length of the stored task list and activeCount + deletedCount,
\* deletedCount the number of tombstones, newCount and updatedCount the
\* lengths of the stored new-id and updated-id lists, changedCount their sum;
\* a prior snapshot of task 1 and a fetch of tasks 1 (unchanged) and 2 give
\* 2 active, 0 deleted, newCount 1 (id 2) and updatedCount 0
ThmC25_SummaryAgrees ==
    \A s \in Triggers : Done(s) =>
        LET summary == sync[s].summary[1]
        IN  /\ summary.taskCount = Len(StoredTasks)
            /\ summary.taskCount = summary.activeCount + summary.deletedCount
            /\ summary.deletedCount =
                  Cardinality({t \in ElemsOf(StoredTasks) : t.deleted})
            /\ summary.newCount = Len(StoredList("new_task_ids"))
            /\ summary.updatedCount = Len(StoredList("updated_task_ids"))
            /\ summary.changedCount = summary.newCount + summary.updatedCount
            /\ summary.changedCount = Len(StoredList("changed_task_ids"))
            /\ OneKnownOneNew(s) =>
                  /\ summary.activeCount = 2
                  /\ summary.deletedCount = 0
                  /\ summary.newCount = 1
                  /\ StoredList("new_task_ids") = <<2>>
                  /\ summary.updatedCount = 0

\* the second sync of the example has persisted
WitC25_ExampleSynced ==
    \E s \in Triggers : Done(s) /\ OneKnownOneNew(s)

(***************************************************************************)
(* Properties of the change set across triggers (Spec)                     *)
(***************************************************************************)
\* C27 as stated: the changed task ids served to the UI persist across
\* scheduled syncs: once a sync has stored changed ids, a scheduled sync
\* neither clears nor replaces them, only a manual sync does
CexC27_ChangesSurviveCron ==
    [][( /\ handleFilters(kv).changedTaskIds # <<>>
         /\ handleFilters(kv').changedTaskIds # handleFilters(kv).changedTaskIds )
       => sync["manual"].pc = "put" /\ sync'["manual"].pc = "done"]_vars

(***************************************************************************)
(* Properties of the order of tasks (SpecServe)                            *)
(***************************************************************************)
\* the ids of a task list fall strictly from one entry to the next
StrictlyDescending(tasks) ==
    \A i \in 1..Len(tasks) : \A j \in 1..Len(tasks) :
        i < j => tasks[i].id > tasks[j].id

\* the last request was a search that the task list answered
SearchAnswered ==
    /\ search.stage = "served"
    /\ search.handler = "search"
    /\ "query" \in DOMAIN search.response.body

\* C30: the persisted task list is sorted strictly descending by id, and so
\* is the list a search over it returns, whatever the query (empty,
\* prefix and number, number only, free text)
ThmC30_DescendingOrder ==
    /\ StrictlyDescending(StoredTasks)
    /\ SearchAnswered => StrictlyDescending(search.response.body.tasks)

\* a search by number returned a live task ahead of a tombstone
WitC30_NumberSearchWithTombstone ==
    /\ SearchAnswered
    /\ search.request = <<"1">>
    /\ Len(search.response.body.tasks) = 2
    /\ ~search.response.body.tasks[1].deleted
    /\ search.response.body.tasks[2].deleted

(***************************************************************************)
(* Properties of the event stream of a manual sync (SpecStream)            *)
(***************************************************************************)
ProgressEvents(s) == SelectSeq(sync[s].events, LAMBDA e : e.type = "progress")
TerminalTypes == {"complete", "error"}

\* the stream starts with its only 'connecting' event, progress events
\* follow, and a terminal event can only be the last one
WellShapedStream(s) ==
    LET events == sync[s].events
    IN  /\ events # <<>>
        /\ events[1].type = "connecting"
        /\ \A i \in 2..Len(events) :
              \/ events[i].type = "progress"
              \/ i = Len(events) /\ events[i].type \in TerminalTypes

\* one progress event per page fetched with success, none of them ahead of
\* the request for its page
OnePerPage(s) ==
    Len(ProgressEvents(s)) =
        IF sync[s].pc = "failed" THEN sync[s].requests - 1 ELSE sync[s].requests

\* phases, page numbers and counters of the progress events in order
OrderedProgress(s) ==
    LET progress == ProgressEvents(s)
    IN  /\ \A k \in 1..Len(progress) :
              /\ progress[k].totalPages = k
              /\ IF k = 1
                 THEN progress[k].phase = "subscribed" /\ progress[k].page = 1
                 ELSE /\ progress[k].tasksFound >= progress[k - 1].tasksFound
                      /\ IF progress[k].phase = progress[k - 1].phase
                         THEN progress[k].page = progress[k - 1].page + 1
                         ELSE /\ progress[k - 1].phase = "subscribed"
                              /\ progress[k].phase = "assigned"
                              /\ progress[k].page = 1
        /\ progress # <<>> =>
              progress[Len(progress)].tasksFound = Cardinality(FetchedIds(s))

\* the terminal event is there exactly when the call is over: 'complete'
\* with every blob written, 'error' when it threw; the stream is then closed
EndsOnce(s) ==
    LET last == sync[s].events[Len(sync[s].events)]
    IN  /\ sync[s].closed <=> sync[s].pc \in {"done", "failed"}
        /\ sync[s].closed <=> last.type \in TerminalTypes
        /\ sync[s].pc = "done" => last.type = "complete" /\ sync[s].pending = <<>>
        /\ sync[s].pc = "failed" => last.type = "error"

\* C29: the stream of a manual sync holds one 'connecting' event first, then
\* one 'progress' event per page fetched with success, emitted after the page
\* is merged and before the next page is requested, the 'subscribed' pages
\* before the 'assigned' ones, pages numbered 1, 2, 3, ... within a phase,
\* totalPages growing by one per event and tasksFound never falling, then one
\* terminal event, 'complete' after all blob writes or 'error'; the stream is
\* then closed and nothing more is emitted
ThmC29_EventOrdering ==
    /\ [](\A s \in Triggers : sync[s].onProgress =>
             /\ WellShapedStream(s)
             /\ OnePerPage(s)
             /\ OrderedProgress(s)
             /\ EndsOnce(s))
    /\ [][\A s \in Triggers : sync[s].closed =>
             sync'[s].events = sync[s].events \/ sync'[s] = IdleSync]_vars

\* a manual sync completed after two pages of each phase, the task found
\* on the second page
WitC29_TwoPagesEachPhase ==
    LET progress == ProgressEvents("manual")
    IN  /\ sync["manual"].pc = "done"
        /\ Len(progress) = 4
        /\ progress[1].tasksFound = 0
        /\ progress[2].tasksFound = 1
        /\ progress[2].phase = "subscribed"
        /\ progress[3].phase = "assigned"

(***************************************************************************)
(* Properties of a sync whose client went away (SpecCancel)                *)
(***************************************************************************)
\* C28 as stated: a sync cancelled while it runs fetches no page beyond the
\* one it was waiting for and persists nothing: every stored blob keeps the
\* value it had before the sync started
CexC28_CancelledPersistsNothing ==
    [][\A s \in Triggers : sync[s].disconnectedAt # None =>
          /\ sync'[s].requests <= sync[s].disconnectedAt[1] + 1
          /\ kv' = kv]_vars

(***************************************************************************)
(* Properties of the configuration (SpecConfig)                            *)
(***************************************************************************)
\* no API token is set, as a secret or in the store
Unconfigured ==
    env.PRODUCTIVE_API_TOKEN = None /\ kv["config_api_token"] = None

\* the call of a trigger failed with the configuration error
FailedUnconfigured(s) ==
    sync[s].pc = "failed" /\ sync[s].error = Some(NotConfigured)

\* C26: a sync attempt that starts while no API token is configured fails at
\* once with the configuration error, having issued no request to the API
\* and written no blob; the failed call is not retried, it only returns, and
\* its return leaves the store as it was.
ThmC26_ConfigurationError ==
    [][\A s \in Triggers :
          /\ (Unconfigured /\ sync[s].pc = "idle" /\ sync'[s].pc # "idle")
                => /\ sync'[s].pc = "failed"
                   /\ sync'[s].error = Some(NotConfigured)
                   /\ sync'[s].requests = 0
                   /\ sync'[s].pending = <<>>
                   /\ kv' = kv
          /\ (FailedUnconfigured(s) /\ sync'[s] # sync[s])
                => /\ sync'[s] = IdleSync
                   /\ kv' = kv]_vars

\* a scheduled trigger failed before its first request on a deployment that
\* was never set up
WitC26_ScheduledUnconfigured ==
    /\ Unconfigured
    /\ FailedUnconfigured("cron")
    /\ sync["cron"].requests = 0
    /\ kv = [k \in StoreKeys |-> None]

(***************************************************************************)
(* Properties of the router, the logins and the credentials (SpecAuth)     *)
(***************************************************************************)
\* a PIN is set, as a secret or in the store
Protected == env.APP_PIN # None \/ kv["config_app_pin"] # None

\* a request whose cookie holds the token is taken as authenticated
Authenticates(token) == isAuthenticated(Some(token), env, kv)

\* the PIN is the effective one: the secret when there is one, and otherwise
\* the PIN whose digest the store holds
EffectivePin(pin) ==
    IF env.APP_PIN # None THEN env.APP_PIN = Some(pin)
    ELSE kv["config_app_pin"] = Some(hashPin(pin))

\* the step answers a request that went to the handler: the handler's answer
\* is not the one that was there before
Handled(handler) ==
    /\ search'.stage = "served"
    /\ search'.handler = handler
    /\ \/ search.stage # "served"
       \/ search.handler # handler
       \/ search.request # search'.request
       \/ search.response.status # search'.response.status
       \/ search.response.body # search'.response.body

\* C24: with a PIN set, a token authenticates a request exactly when a login
\* issued it and it was neither logged out nor expired since; a token is
\* only issued by a login request whose trimmed PIN is the effective PIN; a
\* login request with a missing or wrong PIN leaves the sessions as they
\* were; and a token carried by a logout request authenticates no request
\* afterwards.
ThmC24_SessionLifecycle ==
    /\ [](Protected =>
            \A t \in Tokens : Authenticates(t) <=> issued[t] = "valid")
    /\ [][/\ \A t \in Tokens :
                (issued[t] # "valid" /\ issued'[t] = "valid")
                   => /\ issued[t] = "unissued"
                      /\ Handled("handleLoginPost")
                      /\ search'.response.status = 302
                      /\ search'.response.body = Some(t)
                      /\ EffectivePin(trim(search'.request.body[1]))
          /\ (Handled("handleLoginPost")
              /\ ~EffectivePin(trim(search'.request.body[1])))
                => UNCHANGED <<kv, issued>>
          /\ \A t \in Tokens :
                (Handled("destroySession") /\ search'.request.cookie = Some(t))
                   => /\ issued'[t] # "valid"
                      /\ Protected' => ~Authenticates(t)']_vars

\* a logout request carried a session's token while another session stays
\* valid
WitC24_LoggedOutBesideValid ==
    /\ search.stage = "served"
    /\ search.handler = "destroySession"
    /\ Protected
    /\ \E t, u \in Tokens :
          /\ search.request.cookie = Some(t)
          /\ issued[t] = "loggedOut" /\ ~Authenticates(t)
          /\ issued[u] = "valid" /\ Authenticates(u)

\* the API token in effect: the secret when there is one, and otherwise the
\* token in the store
EffectiveToken ==
    IF env.PRODUCTIVE_API_TOKEN # None THEN env.PRODUCTIVE_API_TOKEN
    ELSE kv["config_api_token"]

\* the routes of the application: every request but a preflight, a static
\* asset, the setup wizard and the logout
ApplicationRoute(request) ==
    /\ request.method # "OPTIONS"
    /\ request.path \notin StaticAssets \cup {"/setup", "/logout"}

\* C23: a sync that starts sends the API token that is the secret when the
\* secret is set and the stored token otherwise; a login request is accepted
\* exactly when its trimmed PIN is the secret PIN when that secret is set and
\* otherwise the PIN whose digest is stored, whatever Settings stored in
\* between; and while no API token exists in either place the answer to
\* every request for an application route is a redirect to /setup.
ThmC23_CredentialPriority ==
    /\ []((Unconfigured /\ search.stage = "served"
                        /\ ApplicationRoute(search.request))
            => /\ search.handler = "router"
               /\ search.response.status = 302
               /\ search.response.location = "/setup")
    /\ [][/\ \A s \in Triggers :
                (sync[s].pc = "idle" /\ sync'[s].pc # "idle")
                   => /\ EffectiveToken # None
                      /\ sync'[s].apiToken = EffectiveToken
          /\ Handled("handleLoginPost")
                => (search'.response.status = 302
                      <=> EffectivePin(trim(search'.request.body[1])))]_vars

\* both secrets are set, Settings stored another token and another PIN, and
\* a manual sync started after a login sends the secret token
WitC23_SecretsOverStore ==
    /\ env.PRODUCTIVE_API_TOKEN = Some(SecretApiToken)
    /\ env.APP_PIN = Some(Pin1234)
    /\ kv["config_api_token"] = Some(SettingsApiToken)
    /\ kv["config_app_pin"] = Some(hashPin(Pin9999))
    /\ \E t \in Tokens : issued[t] = "valid"
    /\ sync["manual"].pc = "fetch"
    /\ sync["manual"].apiToken = Some(SecretApiToken)

\* the step answers a request: its answer is not the one to the same request
\* that was there before
Answered ==
    /\ search'.stage = "served"
    /\ \/ search.stage # "served"
       \/ search.handler # search'.handler
       \/ search.request.method # search'.request.method
       \/ search.request.path # search'.request.path
       \/ search.request.cookie # search'.request.cookie
       \/ search.response.status # search'.response.status

\* the routes C22 exempts: the preflight, the static assets, /setup, /login
\* and /logout
Exempt(request) ==
    \/ request.method = "OPTIONS"
    \/ request.path \in StaticAssets \cup {"/setup", "/login", "/logout"}

\* the request carries the token of a session the store holds
ValidSession(request) ==
    request.cookie # None /\ kv[SessionKey(request.cookie[1])] # None

\* C22 as stated: on a configured deployment with a PIN set, every request
\* for a route that is not exempt and that carries no valid session is
\* answered by the router with a redirect to /login.
CexC22_EveryRouteProtected ==
    [][(/\ ~Unconfigured /\ Protected
        /\ Answered
        /\ ~Exempt(search'.request)
        /\ ~ValidSession(search'.request))
          => /\ search'.handler = "router"
             /\ search'.response.status = 302
             /\ search'.response.location = "/login"]_vars

(***************************************************************************)
(* Properties of the derived keys and of repeated syncs (Spec)             *)
(***************************************************************************)
\* C31: every record of the stored task list has ticketKey equal to its
\* projectPrefix, a dash and its ticketNumber; and every stored record whose
\* projectId is a key of the stored prefix map has the projectPrefix the map
\* gives its project, which the stored prefix index maps back to that project
ThmC31_DerivedKeys ==
    \A t \in ElemsOf(StoredTasks) :
        /\ t.ticketKey = t.projectPrefix \o <<"-">> \o Digits(t.ticketNumber)
        /\ t.projectId \in MappedProjects(kv) =>
              /\ t.projectPrefix = StoredList("prefix_map")[t.projectId]
              /\ t.projectPrefix \in DOMAIN StoredList("prefix_index")
              /\ StoredList("prefix_index")[t.projectPrefix] = t.projectId

\* a sync has carried a record forward whose project it gave another prefix
\* than the one the record had in the prior snapshot
WitC31_TombstoneRestamped ==
    \E s \in Triggers : Done(s) /\ \E p \in Prior(s) : \E t \in StoredWithId(p.id) :
        /\ t.deleted
        /\ t.projectId \in MappedProjects(kv)
        /\ t.projectPrefix # p.projectPrefix

\* the tombstones of the prior snapshot that the fetches of the pass did not
\* return
StillAbsent(s) == {p \in Prior(s) : p.deleted /\ p.id \notin FetchedIds(s)}

\* C32 as stated: after a sync a record that was a tombstone in the prior
\* snapshot and that no fetch returned is stored with every field as in the
\* prior snapshot; and a sync whose fetches returned what the fetches of the
\* sync before it returned stores the task list it read, with an empty
\* change set
CexC32_ResyncKeepsEveryField ==
    \A s \in Triggers : Done(s) =>
        /\ \A p \in StillAbsent(s) : StoredWithId(p.id) = {p}
        /\ sync[s].sameAsLast =>
              /\ StoredTasks = sync[s].existingTasks
              /\ StoredList("changed_task_ids") = <<>>

\* C32, amended: after a sync a record that was a tombstone in the prior
\* snapshot and that no fetch returned is stored with the deleted flag, the
\* status and id, ticketNumber, title, projectId, project, assignee, dueDate,
\* createdAt, updatedAt and url of the prior snapshot, with the prefix this
\* sync assigned to its project if the sync observed that project and the
\* prior projectPrefix otherwise, and with ticketKey projectPrefix-ticketNumber;
\* and a sync whose fetches returned what the fetches of the sync before it
\* returned stores the task list it read, with an empty change set
ThmC32_Resync ==
    \A s \in Triggers : Done(s) =>
        /\ \A p \in StillAbsent(s) :
              StoredWithId(p.id) =
                  {[p EXCEPT !.projectPrefix = RestampedPrefix(p),
                             !.ticketKey = RestampedPrefix(p) \o <<"-">>
                                               \o Digits(p.ticketNumber)]}
        /\ sync[s].sameAsLast =>
              /\ StoredTasks = sync[s].existingTasks
              /\ StoredList("changed_task_ids") = <<>>

\* a sync has repeated the fetches of the sync before it over a snapshot that
\* held a tombstone beside the fetched tasks
WitC32_RepeatedOverTombstone ==
    \E s \in Triggers :
        /\ Done(s)
        /\ sync[s].sameAsLast
        /\ FetchedIds(s) # {}
        /\ StillAbsent(s) # {}

(***************************************************************************)
(* Properties of overlapping passes: the task list (SpecOverlap)           *)
(***************************************************************************)
\* C33 as stated: also when passes overlap, a task id that is in the stored
\* task list before a step is in it after the step
CexC33_AppendOnlyUnderOverlap ==
    [][\A id \in TaskIds : id \in StoredIds(kv) => id \in StoredIds(kv')]_vars

(***************************************************************************)
(* Properties of ticket links over later syncs (SpecServe)                 *)
(***************************************************************************)
\* the answer a browse request for r would get from this store
BrowseAnswer(store, r) == handleBrowse(store, r.prefix, r.number)

\* C34 as stated: a ticket path that is redirected to the url of a task
\* before a step is redirected to the same url after it, whatever a sync
\* has stored in between
CexC34_LinksStayValid ==
    [][\A r \in BrowseRequests :
          BrowseAnswer(kv, r).status = 302 =>
              /\ BrowseAnswer(kv', r).status = 302
              /\ BrowseAnswer(kv', r).body = BrowseAnswer(kv, r).body]_vars

\* the credentials the store holds
StoredCredentials(store) == <<store["config_app_pin"], store["config_api_token"]>>

\* C35 as stated: while a PIN is set, a step changes the stored PIN or the
\* stored API token only by answering a request that carries a valid session
\* or by answering the setup wizard's form while no API token is configured
CexC35_SettingsNeedSession ==
    [][(Protected /\ StoredCredentials(kv') # StoredCredentials(kv))
          => /\ search'.stage = "served"
             /\ \/ ValidSession(search'.request)
                \/ search'.handler = "handleSetupPost" /\ Unconfigured]_vars

(***************************************************************************)
(* Properties of the setup wizard's writes (SpecSetup)                     *)
(***************************************************************************)
\* a pass of the /update route starts in this step
SyncTriggered == sync["manual"].pc = "idle" /\ sync'["manual"].pc # "idle"

\* C36 as stated: in no state is the API token stored and no PIN stored;
\* and once the token is stored no request without a valid session is served
\* the dashboard page, and no sync is triggered without a PIN in the way
CexC36_NoUnprotectedWindow ==
    /\ [](kv["config_api_token"] # None => kv["config_app_pin"] # None)
    /\ [][/\ (/\ kv["config_api_token"] # None
              /\ Answered
              /\ search'.handler = "renderSearchPage")
                => ValidSession(search'.request)
          /\ SyncTriggered => Protected]_vars

(***************************************************************************)
(* Properties of records that come back, and of the status filter (Spec)   *)
(***************************************************************************)
\* the tombstones of the prior snapshot that a fetch of the pass returned
Resurrected(s) == {p \in Prior(s) : p.deleted /\ p.id \in FetchedIds(s)}

\* C37: after a sync a record that was a tombstone in the prior snapshot and
\* that a fetch returned is stored once, with the deleted flag false and the
\* status, updatedAt, title, ticketNumber, projectId and assigneeId of its
\* first occurrence in the responses; it is not in the new-id list, and it is
\* in the updated-id list and in the changed-id list exactly if its fetched
\* updatedAt differs from the updatedAt the tombstone held
ThmC37_Resurrection ==
    \A s \in Triggers : Done(s) =>
        \A p \in Resurrected(s) :
            LET first == sync[s].firstSeen[p.id]
            IN  /\ \E t \in StoredWithId(p.id) :
                      /\ StoredWithId(p.id) = {t}
                      /\ ~t.deleted
                      /\ t.status = StatusNames[first.workflow_status]
                      /\ t.updatedAt = first.updated_at
                      /\ t.title = first.title
                      /\ t.ticketNumber = first.number
                      /\ t.projectId = first.project
                      /\ t.assigneeId = first.assignee
                /\ p.id \notin ElemsOf(StoredList("new_task_ids"))
                /\ p.id \in ElemsOf(StoredList("updated_task_ids"))
                      <=> first.updated_at # p.updatedAt
                /\ p.id \in ElemsOf(StoredList("changed_task_ids"))
                      <=> first.updated_at # p.updatedAt

\* a sync has brought back two tombstones, one edited upstream since it was
\* stored and one as it was stored
WitC37_BackEditedAndUnedited ==
    \E s \in Triggers : Done(s) /\ \E p, q \in Resurrected(s) :
        /\ p.status = Unknown /\ q.status = Unknown
        /\ sync[s].firstSeen[p.id].updated_at # p.updatedAt
        /\ sync[s].firstSeen[q.id].updated_at = q.updatedAt

\* the status values of the records of the stored task list
StoredStatuses == {t.status : t \in ElemsOf(StoredTasks)}

\* C38: once a sync has stored a task list, the stored status filter list
\* holds exactly the status values of the stored records, tombstones
\* included, each once, in ascending order of their code units
ThmC38_StatusFilterMatches ==
    kv["all_tasks"] # None =>
        LET statuses == StoredList("filter_statuses")
        IN  /\ kv["filter_statuses"] # None
            /\ ElemsOf(statuses) = StoredStatuses
            /\ \A i, j \in 1..Len(statuses) :
                  i < j => CompareCodeUnits(statuses[i], statuses[j], 1) < 0

\* a sync whose fetches returned a task twice, in two versions with two
\* statuses, has stored it beside a tombstone
WitC38_DuplicateBesideTombstone ==
    \E s \in Triggers :
        /\ Done(s)
        /\ sync[s].sawDuplicate
        /\ \E t \in ElemsOf(StoredTasks) : t.deleted
        /\ Len(StoredList("filter_statuses")) >= 2

(***************************************************************************)
(* Properties of a ticket looked up both ways (SpecLookup)                 *)
(***************************************************************************)
\* C39 as stated: the browse request for a key is redirected to the url of a
\* stored task exactly if the search for the same prefix and number finds
\* that task by its exact match on prefix and number, and the search then
\* returns what the exact match found
CexC39_BrowseAgreesWithSearch ==
    search.stage = "browsed" =>
        /\ \A t \in ElemsOf(search.tasks) :
              (search.browsed[1].status = 302 /\ search.browsed[1].body = t.url)
                 <=> t \in ElemsOf(search.exact[1])
        /\ search.exact[1] # <<>> => search.results[1] = search.exact[1]

====
